---- MODULE Spec2Model ----
(***************************************************************************)
(* Storage, migration and cross-tab reconciliation of the Notes editor.    *)
(*                                                                         *)
(* The shared localStorage is the variable `store`; every tab owns an      *)
(* in-memory document collection, an open document, a watermark and an     *)
(* editor.  Handlers of one tab are synchronous, so each handler is one    *)
(* action.  Date.now() is the variable `clock`: a handler reads it once,   *)
(* the value it reads being the last one read or the next one.             *)
(*                                                                         *)
(* A document body is a sequence of tokens: text, whitespace, an <img> tag *)
(* with a quoted src, or a src string occurring outside an <img> tag.  A   *)
(* src string is a data: URL (its payload a sequence of characters) or a   *)
(* placeholder notes:image:<id> followed by the characters that directly   *)
(* follow the id.                                                          *)
(***************************************************************************)
EXTENDS Integers, Sequences, FiniteSets, TLC

VARIABLES store, clock, nextImg, tabs, ev, ops

vars == <<store, clock, nextImg, tabs, ev, ops>>

\* ------------------------------------------------------------------ bounds
MaxTokens == 2      \* tokens of inline content in an initial snapshot
MaxMigClock == 2    \* largest value of Date.now() while the store is migrated
MaxClock == 3       \* largest value of Date.now() while tabs edit
MaxOps == 6         \* handlers run by all tabs together
MaxImg == 4         \* largest image id the migration may allocate

CURRENT_STORAGE_VERSION == 4
POLL_MS == 1000

\* ----------------------------------------------------------- body strings
NoSrc == [t |-> "none", id |-> 0, p |-> <<>>]
Data(p) == [t |-> "data", id |-> 0, p |-> p]
Ph(i, tail) == [t |-> "ph", id |-> i, p |-> tail]
\* The empty string as a stored value: falsy where the code tests a value.
EmptyStr == [t |-> "empty", id |-> 0, p |-> <<>>]

TXT == [k |-> "txt", src |-> NoSrc]
WS == [k |-> "ws", src |-> NoSrc]
Img(s) == [k |-> "img", src |-> s]
Raw(s) == [k |-> "raw", src |-> s]

\* Two data URLs, the first a proper prefix of the second.
UrlA == Data(<<"a">>)
UrlAB == Data(<<"a", "b">>)
DataUrls == {UrlA, UrlAB}

IsPrefix(s, t) == Len(s) <= Len(t) /\ SubSeq(t, 1, Len(s)) = s

\* String.prototype.trim() of a body: what is left is non-empty.
NonBlank(content) == \E n \in 1..Len(content) : content[n].k # "ws"

\* ------------------------------------------------------------------ store
EmptyMap == <<>>
AbsentKey == [st |-> "absent", m |-> EmptyMap]
CorruptKey == [st |-> "corrupt", m |-> EmptyMap]
Json(m) == [st |-> "ok", m |-> m]

Put(m, k, v) == [x \in (DOMAIN m) \cup {k} |-> IF x = k THEN v ELSE m[x]]
Del(m, k) == [x \in (DOMAIN m) \ {k} |-> m[x]]

\* Ascending enumeration of a finite set of numbers.
RECURSIVE SortedSeq(_)
SortedSeq(S) ==
    IF S = {} THEN <<>>
    ELSE LET lo == CHOOSE x \in S : \A y \in S : x <= y
         IN <<lo>> \o SortedSeq(S \ {lo})

\* A write site of the storage module: the function that calls
\* localStorage.setItem / removeItem, and the key (0 where there is one key).
Site(s, k) == [s |-> s, k |-> k]
\* The call at `site` throws (quota exceeded, storage disabled).
Throws(F, site) == site \in F

getStorageVersion(st) == IF st.ver = <<>> THEN 0 ELSE st.ver[1]

\* The version advanced by one step only.
setStorageVersionByOne(st, v) == [st EXCEPT !.ver = <<getStorageVersion(st) + 1>>]
setStorageVersion(st, v) == [st EXCEPT !.ver = <<v>>]

\* The per-image keys and the aggregate key read as one map, whichever the
\* program reads first.
loadImagesMerged(st) ==
    [i \in (DOMAIN st.img) \cup (DOMAIN st.agg.m) |->
        IF i \in DOMAIN st.img THEN st.img[i] ELSE st.agg.m[i]]
\* The per-image keys with a non-empty value (if (val) out[id] = val), or, when
\* there is none, the aggregate map.
loadImagesFromStorage(st) ==
    IF \E i \in DOMAIN st.img : st.img[i] # EmptyStr
    THEN [i \in {x \in DOMAIN st.img : st.img[x] # EmptyStr} |-> st.img[i]]
    ELSE IF st.agg.st = "ok" THEN st.agg.m ELSE EmptyMap

\* saveImageToStorage on the aggregate map, as the store did before the
\* per-image keys.
saveImageToAggregate(st, id, dataUrl, F) ==
    IF Throws(F, Site("image", id)) THEN st
    ELSE [st EXCEPT !.agg = Json(Put(loadImagesMerged(st), id, dataUrl))]
saveImageToStorage(st, id, dataUrl, F) ==
    IF Throws(F, Site("image", id)) THEN st
    ELSE [st EXCEPT !.img = Put(@, id, dataUrl)]

\* getImageFromStorage with no `|| undefined`: the stored value as it is.
getImageRaw(st, id) == IF id \in DOMAIN st.img THEN <<st.img[id]>> ELSE <<>>
\* getImageFromStorage: <<>> is undefined; an empty value reads as undefined.
getImageFromStorage(st, id) ==
    IF id \in DOMAIN st.img /\ st.img[id] # EmptyStr THEN <<st.img[id]>> ELSE <<>>

removeImageFromStorage(st, id, F) ==
    IF Throws(F, Site("rmimage", id)) THEN st ELSE [st EXCEPT !.img = Del(@, id)]

saveImagesToStorage(st, images, F) ==
    IF Throws(F, Site("images", 0)) THEN st ELSE [st EXCEPT !.agg = Json(images)]

saveDocContent(st, id, content, F) ==
    IF Throws(F, Site("body", id)) THEN st
    ELSE [st EXCEPT !.body = Put(@, id, content)]

\* saveDocsToStorage has no try/catch: the caller sees the exception.  Its call
\* sites are numbered: 2 and 3 in the v2 and v3 steps of the load, 0 in the editor.
saveDocsThrows(F, caller) == Throws(F, Site("docs", caller))
\* A write that patches the stored map document by document.
saveDocsPatched(st, docs) ==
    [st EXCEPT !.docs = Json([d \in (DOMAIN @.m) \cup (DOMAIN docs) |->
                                 IF d \in DOMAIN docs THEN docs[d] ELSE @.m[d]])]
saveDocsToStorage(st, docs) == [st EXCEPT !.docs = Json(docs)]

\* ------------------------------------------------------------- v2 step
\* The matches of /<img[^>]+src=("|')(data:[^"']+)("|')[^>]*>/gi, in order.
ImgMatches(content) ==
    SelectSeq(content, LAMBDA tok : tok.k = "img" /\ tok.src.t = "data")

\* s.split(dataUrl).join("notes:image:" + id) on one src string: a data URL is
\* rewritten when dataUrl is the URL or a prefix of it.
ReplaceSrc(s, dataUrl, id) ==
    IF s.t = "data" /\ IsPrefix(dataUrl.p, s.p)
    THEN Ph(id, SubSeq(s.p, Len(dataUrl.p) + 1, Len(s.p)))
    ELSE s

\* String.prototype.replace with a string pattern: only the first occurrence.
ReplaceFirst(content, dataUrl, id) ==
    LET hits == {n \in 1..Len(content) :
                    content[n].src.t = "data" /\ IsPrefix(dataUrl.p, content[n].src.p)}
    IN [n \in 1..Len(content) |->
           IF hits # {} /\ n = CHOOSE x \in hits : \A y \in hits : x <= y
           THEN [content[n] EXCEPT !.src = ReplaceSrc(@, dataUrl, id)]
           ELSE content[n]]

ReplaceAll(content, dataUrl, id) ==
    [n \in 1..Len(content) |->
        IF content[n].src.t = "none" THEN content[n]
        ELSE [content[n] EXCEPT !.src = ReplaceSrc(@, dataUrl, id)]]

MinOf(S) == CHOOSE x \in S : \A y \in S : x <= y

\* The while loop of migrateDocsImages over the matches of one document:
\* ScanMatch is its body for the data URL of one match, `found` the ids that
\* already hold that URL.
RECURSIVE ScanMatches(_, _, _, _)
\* The body of the while loop with the image never put into the map.
ScanMatchNoStore(rest, images, newContent, next, dataUrl, found) ==
    ScanMatches(rest, images,
                ReplaceAll(newContent, dataUrl, IF found # {} THEN MinOf(found) ELSE next),
                IF found # {} THEN next ELSE next + 1)
ScanMatch(rest, images, newContent, next, dataUrl, found) ==
    IF found # {}
    THEN ScanMatches(rest, images, ReplaceAll(newContent, dataUrl, MinOf(found)), next)
    ELSE ScanMatches(rest, Put(images, next, dataUrl),
                     ReplaceAll(newContent, dataUrl, next), next + 1)

ScanMatches(ms, images, newContent, next) ==
    IF ms = <<>> THEN [images |-> images, content |-> newContent, next |-> next]
    ELSE ScanMatch(Tail(ms), images, newContent, next, Head(ms).src,
                   {k \in DOMAIN images : images[k] = Head(ms).src})

\* The for loop of migrateDocsImages over Object.keys(docs): ScanDoc is the end
\* of its body, `matched` whether the regex matched, r the result of the while
\* loop.
RECURSIVE ScanDocs(_, _, _, _, _, _)
ScanDoc(ids, docs, changed, t, matched, r) ==
    ScanDocs(Tail(ids),
             [docs EXCEPT ![Head(ids)] =
                 IF (changed \/ matched) /\ r.content # @.content
                 THEN [@ EXCEPT !.content = r.content, !.lastSaved = t]
                 ELSE @],
             r.images, changed \/ matched, r.next, t)

ScanDocs(ids, docs, images, changed, next, t) ==
    IF ids = <<>>
    THEN [docs |-> docs, images |-> images, changed |-> changed, next |-> next]
    ELSE IF docs[Head(ids)].content = <<>>
         THEN ScanDocs(Tail(ids), docs, images, changed, next, t)
         ELSE ScanDoc(ids, docs, changed, t,
                      ImgMatches(docs[Head(ids)].content) # <<>>,
                      ScanMatches(ImgMatches(docs[Head(ids)].content), images,
                                  docs[Head(ids)].content, next))

\* The end of migrateDocsImages: the images map is saved when a tag matched.
SaveScanned(st, F, r) ==
    [docs |-> r.docs,
     st |-> IF r.changed THEN saveImagesToStorage(st, r.images, F) ELSE st,
     changed |-> r.changed,
     next |-> r.next]

migrateDocsImages(docs, st, t, next, F) ==
    SaveScanned(st, F, ScanDocs(SortedSeq(DOMAIN docs), docs,
                                loadImagesFromStorage(st), FALSE, next, t))

\* ------------------------------------------------------------- v3 step
\* The loop of migrateSplitDocs with no trim(): any non-empty content is moved.
RECURSIVE SplitDocsNoTrim(_, _, _, _, _, _)
SplitDocsNoTrim(ids, docs, st, changed, t, F) ==
    IF ids = <<>> THEN [docs |-> docs, st |-> st, changed |-> changed]
    ELSE IF docs[Head(ids)].content # <<>>
         THEN SplitDocsNoTrim(Tail(ids),
                              [docs EXCEPT ![Head(ids)] =
                                  [@ EXCEPT !.content = <<>>, !.lastSaved = t]],
                              saveDocContent(st, Head(ids), docs[Head(ids)].content, F),
                              TRUE, t, F)
         ELSE SplitDocsNoTrim(Tail(ids), docs, st, changed, t, F)
RECURSIVE SplitDocs(_, _, _, _, _, _)
SplitDocs(ids, docs, st, changed, t, F) ==
    IF ids = <<>> THEN [docs |-> docs, st |-> st, changed |-> changed]
    ELSE IF NonBlank(docs[Head(ids)].content)
         THEN SplitDocs(Tail(ids),
                        [docs EXCEPT ![Head(ids)] =
                            [@ EXCEPT !.content = <<>>, !.lastSaved = t]],
                        saveDocContent(st, Head(ids), docs[Head(ids)].content, F),
                        TRUE, t, F)
         ELSE SplitDocs(Tail(ids), docs, st, changed, t, F)

\* The v3 step with the lastSaved bump outside the content test.
TouchAll(docs, t, r) ==
    [docs |-> [d \in DOMAIN docs |-> [r.docs[d] EXCEPT !.lastSaved = t]],
     st |-> r.st, changed |-> DOMAIN docs # {}]
migrateSplitDocsTouchAll(docs, st, t, F) ==
    TouchAll(docs, t, SplitDocs(SortedSeq(DOMAIN docs), docs, st, FALSE, t, F))

migrateSplitDocs(docs, st, t, F) ==
    SplitDocs(SortedSeq(DOMAIN docs), docs, st, FALSE, t, F)

\* ------------------------------------------------------------- v4 step
\* The loop with no test for an existing per-image entry.
RECURSIVE PerKeyLoopOverwrite(_, _, _, _, _)
PerKeyLoopOverwrite(ids, parsed, st, changed, F) ==
    IF ids = <<>> THEN [st |-> st, changed |-> changed, thrown |-> FALSE]
    ELSE IF parsed[Head(ids)] = EmptyStr
         THEN PerKeyLoopOverwrite(Tail(ids), parsed, st, changed, F)
         ELSE IF Throws(F, Site("perkey", Head(ids)))
              THEN [st |-> st, changed |-> changed, thrown |-> TRUE]
              ELSE PerKeyLoopOverwrite(Tail(ids), parsed,
                                       [st EXCEPT !.img = Put(@, Head(ids), parsed[Head(ids)])],
                                       TRUE, F)

\* The for loop of migrateImagesMapToPerKey; `thrown` when a setItem threw.
RECURSIVE PerKeyLoop(_, _, _, _, _)
PerKeyLoop(ids, parsed, st, changed, F) ==
    IF ids = <<>> THEN [st |-> st, changed |-> changed, thrown |-> FALSE]
    ELSE IF \/ parsed[Head(ids)] = EmptyStr
            \/ (Head(ids) \in DOMAIN st.img /\ st.img[Head(ids)] # EmptyStr)
         THEN PerKeyLoop(Tail(ids), parsed, st, changed, F)
         ELSE IF Throws(F, Site("perkey", Head(ids)))
              THEN [st |-> st, changed |-> changed, thrown |-> TRUE]
              ELSE PerKeyLoop(Tail(ids), parsed,
                              [st EXCEPT !.img = Put(@, Head(ids), parsed[Head(ids)])],
                              TRUE, F)

\* The aggregate key removed whatever became of the per-image writes.
RemoveAggregateAnyway(F, r) ==
    [st |-> [r.st EXCEPT !.agg = AbsentKey], changed |-> r.changed]
\* The end of migrateImagesMapToPerKey: the aggregate key is removed unless
\* the loop threw.
RemoveAggregate(F, r) ==
    IF r.thrown THEN [st |-> r.st, changed |-> FALSE]
    ELSE [st |-> IF Throws(F, Site("rmagg", 0)) THEN r.st
                 ELSE [r.st EXCEPT !.agg = AbsentKey],
          changed |-> r.changed]

migrateImagesMapToPerKey(st, F) ==
    IF st.agg.st # "ok" THEN [st |-> st, changed |-> FALSE]
    ELSE RemoveAggregate(F, PerKeyLoop(SortedSeq(DOMAIN st.agg.m), st.agg.m, st,
                                       FALSE, F))

\* ------------------------------------------------------------------ load
\* The inner try block of loadDocsFromStorage: the steps the stored version
\* `ver` asks for, then the version write.  An exception leaves the block at
\* once, and the documents parsed (and changed so far) are returned.  `ran` is
\* what the block has done so far, in order: the steps entered and the version
\* written.
StepRun(n) == [e |-> "step", v |-> n]
VersionWrite(v) == [e |-> "version", v |-> v]
Loaded(docs, st, next, failed, ran) ==
    [ret |-> docs, st |-> st, next |-> next, failed |-> failed, ran |-> ran]

\* The version written whatever the version read.
VersionStepAlways(ver, docs, st, next, F, ran) ==
    IF Throws(F, Site("version", 0)) THEN Loaded(docs, st, next, TRUE, ran)
    ELSE Loaded(docs, setStorageVersion(st, CURRENT_STORAGE_VERSION), next, FALSE,
                Append(ran, VersionWrite(CURRENT_STORAGE_VERSION)))
\* if (ver < CURRENT_STORAGE_VERSION) setStorageVersion(...)
VersionStep(ver, docs, st, next, F, ran) ==
    IF ver >= CURRENT_STORAGE_VERSION THEN Loaded(docs, st, next, FALSE, ran)
    ELSE IF Throws(F, Site("version", 0)) THEN Loaded(docs, st, next, TRUE, ran)
         ELSE Loaded(docs, setStorageVersion(st, CURRENT_STORAGE_VERSION), next, FALSE,
                     Append(ran, VersionWrite(CURRENT_STORAGE_VERSION)))

\* The v4 step run whatever the version read.
PerKeyStepAlways(ver, docs, st, next, F, ran) ==
    VersionStep(ver, docs, migrateImagesMapToPerKey(st, F).st, next, F,
                Append(ran, StepRun(4)))
\* if (ver < 4) migrateImagesMapToPerKey()
PerKeyStep(ver, docs, st, next, F, ran) ==
    VersionStep(ver, docs,
                IF ver < 4 THEN migrateImagesMapToPerKey(st, F).st ELSE st, next, F,
                IF ver < 4 THEN Append(ran, StepRun(4)) ELSE ran)

\* if (changed2) saveDocsToStorage(parsed), r the result of the v3 step
SaveSplit(ver, next, F, r, ran) ==
    IF r.changed /\ saveDocsThrows(F, 3) THEN Loaded(r.docs, r.st, next, TRUE, ran)
    ELSE PerKeyStep(ver, r.docs,
                    IF r.changed THEN saveDocsToStorage(r.st, r.docs) ELSE r.st,
                    next, F, ran)

\* if (ver < 3) migrateSplitDocs(parsed)
SplitStep(ver, docs, st, t, next, F, ran) ==
    SaveSplit(ver, next, F,
              IF ver < 3 THEN migrateSplitDocs(docs, st, t, F)
              ELSE [docs |-> docs, st |-> st, changed |-> FALSE],
              IF ver < 3 THEN Append(ran, StepRun(3)) ELSE ran)

\* if (changed) saveDocsToStorage(parsed), r the result of the v2 step
SaveImagesStep(ver, t, F, r, ran) ==
    IF r.changed /\ saveDocsThrows(F, 2) THEN Loaded(r.docs, r.st, r.next, TRUE, ran)
    ELSE SplitStep(ver, r.docs,
                   IF r.changed THEN saveDocsToStorage(r.st, r.docs) ELSE r.st,
                   t, r.next, F, ran)

\* if (ver < 2) migrateDocsImages(parsed)
runMigrations(parsed, st, t, next, F) ==
    SaveImagesStep(getStorageVersion(st), t, F,
                   IF getStorageVersion(st) < 2
                   THEN migrateDocsImages(parsed, st, t, next, F)
                   ELSE [docs |-> parsed, st |-> st, changed |-> FALSE, next |-> next],
                   IF getStorageVersion(st) < 2 THEN <<StepRun(2)>> ELSE <<>>)

\* The load with no catch around JSON.parse: whatever the key holds is migrated.
loadDocsFromStorageUnparsed(st, t, next, F) ==
    IF st.docs.st = "absent" THEN Loaded(EmptyMap, st, next, FALSE, <<>>)
    ELSE runMigrations(st.docs.m, st, t, next, F)
loadDocsFromStorage(st, t, next, F) ==
    IF st.docs.st # "ok" THEN Loaded(EmptyMap, st, next, FALSE, <<>>)
    ELSE runMigrations(st.docs.m, st, t, next, F)

\* ----------------------------------------------------------------- faults
ImgIds == 1..MaxImg
InitDocIds == {1, 2}
Sites ==
    {Site("images", 0), Site("rmagg", 0), Site("version", 0),
     Site("docs", 0), Site("docs", 2), Site("docs", 3)}
    \cup {Site("body", d) : d \in InitDocIds}
    \cup {Site("perkey", i) : i \in ImgIds}
\* The fault patterns explored: no write throws, only the version write throws,
\* only the write of the documents map after the v2 step throws, only the write
\* of the first document's body slot throws, every write throws.
FailSets ==
    {{}, {Site("version", 0)}, {Site("docs", 2)}, {Site("body", 1)}, Sites}

\* ------------------------------------------------- stored snapshots (Init)
Tokens == {Img(UrlA), Img(UrlAB), Raw(UrlA), Img(Ph(1, <<>>))}

RECURSIVE SeqsUpTo(_, _)
SeqsUpTo(S, n) ==
    IF n = 0 THEN {<<>>}
    ELSE LET shorter == SeqsUpTo(S, n - 1)
         IN shorter \cup {Append(q, x) : q \in {r \in shorter : Len(r) = n - 1}, x \in S}

Doc(title, content, lastSaved) ==
    [title |-> title, content |-> content, lastSaved |-> lastSaved]

\* Documents maps of a stored snapshot: no document, one, or two; at most
\* MaxTokens tokens of inline content in all; every document last saved at 1.
InitDocMaps ==
    LET bodies == SeqsUpTo(Tokens, MaxTokens) \cup {<<TXT>>, <<WS>>}
    IN {EmptyMap}
       \cup {[d \in {1} |-> Doc("n", c, 1)] : c \in bodies}
       \cup {[d \in {1, 2} |-> Doc("n", cs[d], 1)] :
               cs \in {x \in [{1, 2} -> bodies] : Len(x[1]) + Len(x[2]) <= MaxTokens}}

InitDocsKey == {AbsentKey, CorruptKey} \cup {Json(m) : m \in InitDocMaps}
\* The aggregate images key and the per-image keys.
InitImages ==
    {<<AbsentKey, EmptyMap>>,
     <<AbsentKey, [i \in {1} |-> UrlA]>>,
     <<CorruptKey, EmptyMap>>,
     <<Json([i \in {1} |-> UrlAB]), EmptyMap>>,
     <<Json([i \in {1} |-> UrlAB]), [i \in {1} |-> UrlA]>>,
     <<Json([i \in {2} |-> UrlAB]), [i \in {1} |-> UrlA]>>}
\* The version key and the body slots: a slot only where the v3 step has run.
InitLayout ==
    {<<<<>>, EmptyMap>>, <<<<2>>, EmptyMap>>,
     <<<<3>>, EmptyMap>>, <<<<3>>, [d \in {1} |-> <<TXT>>]>>,
     <<<<CURRENT_STORAGE_VERSION>>, EmptyMap>>,
     <<<<CURRENT_STORAGE_VERSION>>, [d \in {1} |-> <<TXT>>]>>}

Snapshots ==
    {[docs |-> d, body |-> l[2], img |-> i[2], agg |-> i[1], ver |-> l[1],
      cur |-> 0] :
        d \in InitDocsKey, i \in InitImages, l \in InitLayout}

EmptyStore ==
    [docs |-> AbsentKey, body |-> EmptyMap, img |-> EmptyMap, agg |-> AbsentKey,
     ver |-> <<>>, cur |-> 0]

NoTabs == <<>>
NoEvent == [op |-> "none"]

\* --------------------------------------------------- the migration engine
\* No write of the steps threw (the version write may have).
StepWritesOk(F) == F \subseteq {Site("version", 0), Site("docs", 0)}

MigInit ==
    /\ store \in Snapshots
    /\ clock = 1
    /\ nextImg = Cardinality(InitDocIds) + 1
    /\ tabs = NoTabs
    /\ ev = NoEvent
    /\ ops = 0

\* The values Date.now() may return next: the last one read or a later one.
Now(max) == {t \in {clock, clock + 1} : t <= max}

\* The keys of the store other than the version key.
DataKeys(st) == [st EXCEPT !.ver = <<>>]

\* loadDocsFromStorage called on the store (a tab starting up).  `chain` counts
\* the consecutive loads that ran all three steps with no step write throwing.
Loads(F, t, r, ran, again) ==
    /\ r.next <= MaxImg + 1
    /\ store' = r.st
    /\ nextImg' = r.next
    /\ ev' = [op |-> "load", F |-> F, pre |-> store, ret |-> r.ret,
              failed |-> r.failed, ran |-> r.ran,
              chain |-> IF ran /\ StepWritesOk(F) THEN IF again THEN 2 ELSE 1
                        ELSE 0,
              delta |-> DataKeys(r.st) # DataKeys(store),
              prevDelta |-> again /\ ev.delta]
    /\ clock' = t
    /\ UNCHANGED <<tabs, ops>>

LoadAll(F, t) ==
    Loads(F, t, loadDocsFromStorage(store, t, nextImg, F),
          store.docs.st = "ok" /\ getStorageVersion(store) < 2,
          ev.op = "load" /\ ev.chain >= 1)

\* One step on its own, as loadDocsFromStorage runs it: the step, then the
\* write of the documents map when the step changed it.
SaveStep(r, next) ==
    [st |-> IF r.changed THEN saveDocsToStorage(r.st, r.docs) ELSE r.st,
     next |-> next]
SaveImagesOnly(r) == SaveStep(r, r.next)
StepResult(n, st, t, next) ==
    IF n = 2 THEN SaveImagesOnly(migrateDocsImages(st.docs.m, st, t, next, {}))
    ELSE IF n = 3 THEN SaveStep(migrateSplitDocs(st.docs.m, st, t, {}), next)
         ELSE [st |-> migrateImagesMapToPerKey(st, {}).st, next |-> next]

Steps(n, t, r) ==
    /\ store.docs.st = "ok"
    /\ ev.op = "none" \/ (ev.op = "step" /\ ev.n = n /\ ~ev.again)
    /\ r.next <= MaxImg + 1
    /\ store' = r.st
    /\ nextImg' = r.next
    /\ ev' = [op |-> "step", n |-> n, pre |-> store,
              again |-> ev.op = "step" /\ ev.n = n,
              prevDelta |-> ev.op = "step" /\ ev.pre # store]
    /\ clock' = t
    /\ UNCHANGED <<tabs, ops>>

RunStep(n, t) == Steps(n, t, StepResult(n, store, t, nextImg))

MigNext ==
    \/ \E F \in FailSets, t \in Now(MaxMigClock) : LoadAll(F, t)
    \/ \E n \in {2, 3, CURRENT_STORAGE_VERSION}, t \in Now(MaxMigClock) : RunStep(n, t)

MigSpec == MigInit /\ [][MigNext]_vars

\* ------------------------------------------------- a tab dying in a load
\* The writes of loadDocsFromStorage in the order the code reaches them.
CrashOrder ==
    <<Site("images", 0), Site("docs", 2)>>
    \o [n \in 1..Cardinality(InitDocIds) |-> Site("body", n)]
    \o <<Site("docs", 3)>>
    \o [n \in 1..MaxImg |-> Site("perkey", n)]
    \o <<Site("rmagg", 0), Site("version", 0)>>
\* The tab dies after the k-th of these writes: nothing later reaches the store.
CrashSet(k) == {CrashOrder[n] : n \in (k + 1)..Len(CrashOrder)}

\* A load that dies after the k-th write (k = Len(CrashOrder) - 1: only the
\* version write is lost).
Dies(k, t, r) ==
    /\ ev.op = "none"
    /\ r.next <= MaxImg + 1
    /\ store' = r.st
    /\ nextImg' = r.next
    /\ ev' = [op |-> "crash", k |-> k, pre |-> store, next0 |-> nextImg]
    /\ clock' = t
    /\ UNCHANGED <<tabs, ops>>

CrashedLoad(k, t) ==
    Dies(k, t, loadDocsFromStorage(store, t, nextImg, CrashSet(k)))

\* The next load, no write failing; ref is the store an uninterrupted load of
\* the first snapshot leaves.
Recovers(t, r, ref) ==
    /\ ev.op = "crash"
    /\ r.next <= MaxImg + 1
    /\ store' = r.st
    /\ nextImg' = r.next
    /\ ev' = [op |-> "reload", k |-> ev.k, pre0 |-> ev.pre, mid |-> store,
              ref |-> ref.st]
    /\ clock' = t
    /\ UNCHANGED <<tabs, ops>>

NextLoad(t) ==
    Recovers(t, loadDocsFromStorage(store, t, nextImg, {}),
             loadDocsFromStorage(ev.pre, t, ev.next0, {}))

CrashNext ==
    \/ \E k \in 0..(Len(CrashOrder) - 1), t \in Now(MaxMigClock) : CrashedLoad(k, t)
    \/ \E t \in Now(MaxMigClock) : NextLoad(t)

CrashSpec == MigInit /\ [][CrashNext]_vars

\* ------------------------------------------------------- reconciliation
Restrict(m, S) == [x \in (DOMAIN m) \cap S |-> m[x]]

\* The first loop overwriting only what the store holds newer, the first
\* loop's flag without the lastSaved test, and no second loop.
MergeNewer(docs, remote) ==
    [id \in (DOMAIN docs) \cup (DOMAIN remote) |->
        IF id \in DOMAIN remote
           /\ (id \notin DOMAIN docs \/ docs[id].lastSaved < remote[id].lastSaved)
        THEN remote[id] ELSE docs[id]]
RemoteMissingOnly(docs, remote) == \E id \in DOMAIN remote : id \notin DOMAIN docs
KeepDeleted(docs, remote) == docs

\* The two loops of checkForExternalUpdates over the snapshot `remote`.
MergeRemote(docs, remote) ==
    [id \in (DOMAIN docs) \cup (DOMAIN remote) |->
        IF id \in DOMAIN remote
           /\ (id \notin DOMAIN docs \/ docs[id].lastSaved # remote[id].lastSaved)
        THEN remote[id] ELSE docs[id]]
RemoteDiffers(docs, remote) ==
    \E id \in DOMAIN remote :
        id \notin DOMAIN docs \/ docs[id].lastSaved # remote[id].lastSaved
DropDeleted(docs, remote) == Restrict(docs, DOMAIN remote)
HasDeleted(docs, remote) == (DOMAIN docs) \ (DOMAIN remote) # {}

\* The handlers called, in an order other than the code's.
HandlerCallsReplaceFirst(changed, replace) ==
    (IF replace THEN <<"onReplace">> ELSE <<>>)
    \o (IF changed THEN <<"onChange">> ELSE <<>>)
\* The handlers run in the order of the calls: onChange, then onReplace.
HandlerCalls(changed, replace) ==
    (IF changed THEN <<"onChange">> ELSE <<>>)
    \o (IF replace THEN <<"onReplace">> ELSE <<>>)

\* The test on the open document with >= and with no watermark at all.
OpenDocNotOlder(currentId, lastKnownSaveTime, remote) ==
    /\ currentId # 0
    /\ currentId \in DOMAIN remote
    /\ remote[currentId].lastSaved >= lastKnownSaveTime
OpenDocPresent(currentId, lastKnownSaveTime, remote) ==
    currentId # 0 /\ currentId \in DOMAIN remote
\* The three tests that guard onReplace, currentId = 0 for null.
OpenDocNewer(currentId, lastKnownSaveTime, remote) ==
    /\ currentId # 0
    /\ currentId \in DOMAIN remote
    /\ remote[currentId].lastSaved > lastKnownSaveTime

\* The return value of checkForExternalUpdates and what it did on the way:
\* newLK is <<>> when no new watermark is returned, arg the document handed to
\* onReplace, calls the handlers in the order of their calls.
Reconciled(docs, changed, replace, currentId, ld) ==
    [docs |-> docs, changed |-> changed, replace |-> replace,
     newLK |-> IF replace THEN <<ld.ret[currentId].lastSaved>> ELSE <<>>,
     arg |-> IF replace THEN <<ld.ret[currentId]>> ELSE <<>>,
     calls |-> HandlerCalls(changed, replace),
     remote |-> ld.ret, st |-> ld.st, next |-> ld.next]

\* The body of checkForExternalUpdates after `remote` is loaded (ld.ret).
Reconcile(docs, currentId, lastKnownSaveTime, ld) ==
    Reconciled(DropDeleted(MergeRemote(docs, ld.ret), ld.ret),
               RemoteDiffers(docs, ld.ret)
                  \/ HasDeleted(MergeRemote(docs, ld.ret), ld.ret),
               OpenDocNewer(currentId, lastKnownSaveTime, ld.ret),
               currentId, ld)

checkForExternalUpdates(docs, currentId, lastKnownSaveTime, st, t, next, F) ==
    Reconcile(docs, currentId, lastKnownSaveTime,
              loadDocsFromStorage(st, t, next, F))

\* ------------------------------------------------------------------- tabs
TabIds == {1, 2}
ClosedTab ==
    [up |-> FALSE, docs |-> EmptyMap, cur |-> 0, lk |-> 0, modified |-> FALSE,
     editor |-> <<>>, timer |-> FALSE, pending |-> 0]
\* What the user can make of the editor's content by typing.
Typed == {<<TXT, TXT>>}
Titles == {"r"}
OtherEvent == [op |-> "other"]

\* selectDoc(id) on tab record tb; a no-op when the document is missing.
selectDoc(tb, id) ==
    IF id \notin DOMAIN tb.docs THEN tb
    ELSE [tb EXCEPT !.cur = id, !.editor = tb.docs[id].content,
                    !.lk = tb.docs[id].lastSaved, !.modified = FALSE]
selectDocStore(st, tb, id) ==
    IF id \notin DOMAIN tb.docs THEN st ELSE [st EXCEPT !.cur = id]

\* createNewDoc(title) at time t: the id is 'doc-' + Date.now().
createNewDoc(tb, title, t) ==
    LET docs2 == Put(tb.docs, t, Doc(title, <<TXT>>, t))
    IN selectDoc([tb EXCEPT !.docs = docs2], t)
createNewDocStore(st, tb, title, t) ==
    [saveDocsToStorage(st, Put(tb.docs, t, Doc(title, <<TXT>>, t))) EXCEPT !.cur = t]

\* saveCurrentDoc() at time t.  It throws before any change when the
\* collection has no entry for currentId.
saveCurrentDoc(tb, t) ==
    IF tb.cur = 0 \/ tb.cur \notin DOMAIN tb.docs THEN tb
    ELSE [tb EXCEPT !.docs[tb.cur].content = tb.editor,
                    !.docs[tb.cur].lastSaved = t,
                    !.lk = t, !.modified = FALSE]
saveCurrentDocStore(st, tb, t) ==
    IF tb.cur = 0 \/ tb.cur \notin DOMAIN tb.docs THEN st
    ELSE saveDocsToStorage(st, saveCurrentDoc(tb, t).docs)

\* The onReplace handler without setModified(false).
onReplaceKeepModified(tb, remoteDoc) ==
    [tb EXCEPT !.editor = remoteDoc.content,
               !.docs = IF tb.cur # 0 THEN Put(@, tb.cur, remoteDoc) ELSE @,
               !.lk = remoteDoc.lastSaved]
\* The onReplace handler of setupEditor.
onReplace(tb, remoteDoc) ==
    [tb EXCEPT !.editor = remoteDoc.content,
               !.docs = IF tb.cur # 0 THEN Put(@, tb.cur, remoteDoc) ELSE @,
               !.lk = remoteDoc.lastSaved,
               !.modified = FALSE]

\* Every handler run counts against the budget of the exploration.
Budget == ops < MaxOps /\ ops' = ops + 1

Init ==
    /\ store = EmptyStore
    /\ clock = 1
    /\ nextImg = 1
    /\ tabs = [i \in TabIds |-> ClosedTab]
    /\ ev = NoEvent
    /\ ops = 0

\* setupEditor: load and migrate (ld), make sure a document exists, open the
\* last-opened document or the first key.
Opens(i, t, ld) ==
    LET tb0 == [tabs[i] EXCEPT !.up = TRUE, !.docs = ld.ret]
        fresh == DOMAIN ld.ret = {}
        tb1 == IF fresh THEN createNewDoc(tb0, "Welcome", t) ELSE tb0
        st1 == IF fresh THEN createNewDocStore(ld.st, tb0, "Welcome", t) ELSE ld.st
    IN /\ Budget
       /\ ~tabs[i].up
       /\ ld.next <= MaxImg + 1
       /\ \E pick \in DOMAIN tb1.docs :
             /\ st1.cur \in DOMAIN tb1.docs => pick = st1.cur
             /\ tabs' = [tabs EXCEPT ![i] = selectDoc(tb1, pick)]
             /\ store' = selectDocStore(st1, tb1, pick)
       /\ nextImg' = ld.next
       /\ clock' = t
       /\ ev' = OtherEvent

Start(i, t) == Opens(i, t, loadDocsFromStorage(store, t, nextImg, {}))

\* The new-note button.
Create(i, t) ==
    /\ Budget
    /\ tabs[i].up
    /\ tabs' = [tabs EXCEPT ![i] = createNewDoc(@, "New note", t)]
    /\ store' = createNewDocStore(store, tabs[i], "New note", t)
    /\ clock' = t
    /\ ev' = OtherEvent
    /\ UNCHANGED nextImg

\* A click on a row of the sidebar.
Select(i, id) ==
    /\ Budget
    /\ tabs[i].up
    /\ id \in DOMAIN tabs[i].docs
    /\ id # tabs[i].cur
    /\ tabs' = [tabs EXCEPT ![i] = selectDoc(@, id)]
    /\ store' = selectDocStore(store, tabs[i], id)
    /\ ev' = OtherEvent
    /\ UNCHANGED <<clock, nextImg>>

\* deleteDoc with no createNewDoc() when nothing remains.
DeleteNoCreate(i, id, t) ==
    LET tb0 == [tabs[i] EXCEPT !.docs = Del(@, id)]
        st0 == saveDocsToStorage(store, tb0.docs)
    IN /\ Budget
       /\ tabs[i].up
       /\ id \in DOMAIN tabs[i].docs
       /\ IF id # tabs[i].cur \/ DOMAIN tb0.docs = {}
          THEN tabs' = [tabs EXCEPT ![i] = tb0] /\ store' = st0
          ELSE \E pick \in DOMAIN tb0.docs :
                  /\ tabs' = [tabs EXCEPT ![i] = selectDoc(tb0, pick)]
                  /\ store' = selectDocStore(st0, tb0, pick)
       /\ clock' = clock
       /\ ev' = OtherEvent
       /\ UNCHANGED nextImg
\* deleteDoc(id).
Delete(i, id, t) ==
    LET tb0 == [tabs[i] EXCEPT !.docs = Del(@, id)]
        st0 == saveDocsToStorage(store, tb0.docs)
        wasOpen == id = tabs[i].cur
        fresh == DOMAIN tb0.docs = {}
    IN /\ Budget
       /\ tabs[i].up
       /\ id \in DOMAIN tabs[i].docs
       /\ IF ~wasOpen
          THEN tabs' = [tabs EXCEPT ![i] = tb0] /\ store' = st0 /\ clock' = clock
          ELSE IF fresh
               THEN /\ tabs' = [tabs EXCEPT ![i] = createNewDoc(tb0, "New note", t)]
                    /\ store' = createNewDocStore(st0, tb0, "New note", t)
                    /\ clock' = t
               ELSE /\ \E pick \in DOMAIN tb0.docs :
                          /\ tabs' = [tabs EXCEPT ![i] = selectDoc(tb0, pick)]
                          /\ store' = selectDocStore(st0, tb0, pick)
                    /\ clock' = clock
       /\ ev' = OtherEvent
       /\ UNCHANGED nextImg

\* The input event of the editor: the debounced save is (re)scheduled.  timer
\* is saveTimer !== null, pending the number of timeouts set and neither fired
\* nor cleared: if (saveTimer) clearTimeout(saveTimer), then setTimeout.
Input(i, content) ==
    /\ Budget
    /\ tabs[i].up
    /\ content # tabs[i].editor
    /\ tabs' = [tabs EXCEPT ![i].editor = content, ![i].timer = TRUE,
                            ![i].pending = IF tabs[i].timer THEN @ ELSE @ + 1]
    /\ ev' = OtherEvent
    /\ UNCHANGED <<store, clock, nextImg>>

\* The Tab key: a node is inserted by hand, no input event, modified is set.
TabKey(i, content) ==
    /\ Budget
    /\ tabs[i].up
    /\ content # tabs[i].editor
    /\ tabs' = [tabs EXCEPT ![i].editor = content, ![i].modified = TRUE]
    /\ ev' = OtherEvent
    /\ UNCHANGED <<store, clock, nextImg>>

\* The callback of the debounce timeout: saveTimer = null, saveCurrentDoc().
TimerFires(i, t) ==
    /\ tabs[i].up
    /\ tabs[i].pending > 0
    /\ tabs' = [tabs EXCEPT ![i] = [saveCurrentDoc(@, t) EXCEPT !.timer = FALSE,
                                                                !.pending = @ - 1]]
    /\ store' = saveCurrentDocStore(store, tabs[i], t)
    /\ clock' = t
    /\ ev' = OtherEvent
    /\ UNCHANGED nextImg

\* The debounce timer fires.
SaveTimer(i, t) == Budget /\ TimerFires(i, t)

\* saveTitle of the rename input.
Rename(i, id, title, t) ==
    /\ Budget
    /\ tabs[i].up
    /\ id \in DOMAIN tabs[i].docs
    /\ title # tabs[i].docs[id].title
    /\ LET docs2 == [tabs[i].docs EXCEPT ![id].title = title, ![id].lastSaved = t]
       IN /\ tabs' = [tabs EXCEPT ![i].docs = docs2,
                                  ![i].lk = IF id = tabs[i].cur THEN t ELSE @]
          /\ store' = saveDocsToStorage(store, docs2)
    /\ clock' = t
    /\ ev' = OtherEvent
    /\ UNCHANGED nextImg

\* The tab after the callback of setInterval: checkForExternalUpdates works on
\* the tab's collection in place and calls onReplace; r is its run.
pollHandler(tb, r) ==
    IF r.replace THEN onReplace([tb EXCEPT !.docs = r.docs], r.arg[1])
    ELSE [tb EXCEPT !.docs = r.docs]

\* The poll timer (and the storage event) of setupEditor, r the run of
\* checkForExternalUpdates on the tab's collection.
Reconciles(i, t, r) ==
    /\ Budget
    /\ tabs[i].up
    /\ r.next <= MaxImg + 1
    /\ tabs' = [tabs EXCEPT ![i] = pollHandler(@, r)]
    /\ store' = r.st
    /\ nextImg' = r.next
    /\ clock' = t
    /\ ev' = [op |-> "reconcile", tab |-> i, pre |-> tabs[i], remote |-> r.remote,
              changed |-> r.changed, newLK |-> r.newLK, arg |-> r.arg,
              calls |-> r.calls]

Poll(i, t) ==
    Reconciles(i, t, checkForExternalUpdates(tabs[i].docs, tabs[i].cur, tabs[i].lk,
                                             store, t, nextImg, {}))

Next ==
    \/ \E i \in TabIds, t \in Now(MaxClock) : Start(i, t)
    \/ \E i \in TabIds, t \in Now(MaxClock) : Create(i, t)
    \/ \E i \in TabIds, id \in 1..MaxClock : Select(i, id)
    \/ \E i \in TabIds, id \in 1..MaxClock, t \in Now(MaxClock) : Delete(i, id, t)
    \/ \E i \in TabIds, c \in Typed : Input(i, c)
    \/ \E i \in TabIds, c \in Typed : TabKey(i, c)
    \/ \E i \in TabIds, t \in Now(MaxClock) : SaveTimer(i, t)
    \/ \E i \in TabIds, id \in 1..MaxClock, l \in Titles, t \in Now(MaxClock) :
          Rename(i, id, l, t)
    \/ \E i \in TabIds, t \in Now(MaxClock) : Poll(i, t)

Spec == Init /\ [][Next]_vars

\* --------------------------------------- editor writes that hit a full store
\* What createNewDoc, deleteDoc and saveCurrentDoc have done to the tab when
\* their saveDocsToStorage throws: the statements before the call.
createNewDocThrown(tb, title, t) ==
    [tb EXCEPT !.docs = Put(@, t, Doc(title, <<TXT>>, t))]
deleteDocThrown(tb, id) == [tb EXCEPT !.docs = Del(@, id)]
saveCurrentDocThrown(tb, t) ==
    IF tb.cur = 0 \/ tb.cur \notin DOMAIN tb.docs THEN tb
    ELSE [tb EXCEPT !.docs[tb.cur].content = tb.editor,
                    !.docs[tb.cur].lastSaved = t,
                    !.lk = t]

\* The record of an editor operation whose write of the documents map failed:
\* threw says whether the exception left the operation.
WriteEvent(i, by, F) ==
    [op |-> "write", tab |-> i, by |-> by, failed |-> Throws(F, Site("docs", 0)),
     threw |-> saveDocsThrows(F, 0), pre |-> tabs[i]]

CreateFails(i, t, F) ==
    /\ Budget
    /\ tabs[i].up
    /\ Throws(F, Site("docs", 0))
    /\ tabs' = [tabs EXCEPT ![i] = createNewDocThrown(@, "New note", t)]
    /\ clock' = t
    /\ ev' = WriteEvent(i, "createNewDoc", F)
    /\ UNCHANGED <<store, nextImg>>

DeleteFails(i, id, F) ==
    /\ Budget
    /\ tabs[i].up
    /\ id \in DOMAIN tabs[i].docs
    /\ Throws(F, Site("docs", 0))
    /\ tabs' = [tabs EXCEPT ![i] = deleteDocThrown(@, id)]
    /\ ev' = WriteEvent(i, "deleteDoc", F)
    /\ UNCHANGED <<store, clock, nextImg>>

SaveTimerFails(i, t, F) ==
    /\ Budget
    /\ tabs[i].up
    /\ tabs[i].pending > 0
    /\ tabs[i].cur \in DOMAIN tabs[i].docs
    /\ Throws(F, Site("docs", 0))
    /\ tabs' = [tabs EXCEPT ![i] = [saveCurrentDocThrown(@, t) EXCEPT !.timer = FALSE,
                                                                      !.pending = @ - 1]]
    /\ clock' = t
    /\ ev' = WriteEvent(i, "saveCurrentDoc", F)
    /\ UNCHANGED <<store, nextImg>>

\* One tab whose writes of the documents map may throw.
FaultNext ==
    \/ \E t \in Now(MaxClock) : Start(1, t)
    \/ \E t \in Now(MaxClock) : Create(1, t)
    \/ \E id \in 1..MaxClock : Select(1, id)
    \/ \E id \in 1..MaxClock, t \in Now(MaxClock) : Delete(1, id, t)
    \/ \E c \in Typed : Input(1, c)
    \/ \E t \in Now(MaxClock) : SaveTimer(1, t)
    \/ \E t \in Now(MaxClock) : CreateFails(1, t, {Site("docs", 0)})
    \/ \E id \in 1..MaxClock : DeleteFails(1, id, {Site("docs", 0)})
    \/ \E t \in Now(MaxClock) : SaveTimerFails(1, t, {Site("docs", 0)})

FaultSpec == Init /\ [][FaultNext]_vars

\* ------------------------------------ two tabs that never delete a document
RaceNext ==
    \/ \E i \in TabIds, t \in Now(MaxClock) : Start(i, t)
    \/ \E i \in TabIds, t \in Now(MaxClock) : Create(i, t)
    \/ \E i \in TabIds, c \in Typed : Input(i, c)
    \/ \E i \in TabIds, t \in Now(MaxClock) : SaveTimer(i, t)
    \/ \E i \in TabIds, id \in 1..MaxClock, l \in Titles, t \in Now(MaxClock) :
          Rename(i, id, l, t)
    \/ \E i \in TabIds, t \in Now(MaxClock) : Poll(i, t)

RaceSpec == Init /\ [][RaceNext]_vars

\* ------------------------------------------------------ the image keys
\* Two tabs saving, reading and removing images (the paste handler of the
\* editor calls saveImageToStorage); every call is one storage operation.
ImgKeys == {1, 2}
ImgVals == {UrlA, UrlAB, EmptyStr}
ImgSnapshots ==
    {[EmptyStore EXCEPT !.img = m, !.agg = a] :
        m \in {EmptyMap, [i \in {1} |-> UrlA], [i \in {1} |-> EmptyStr],
               [i \in {1, 2} |-> IF i = 1 THEN EmptyStr ELSE UrlAB]},
        a \in {AbsentKey, CorruptKey, Json([i \in {3} |-> UrlAB])}}

ImgInit ==
    /\ store \in ImgSnapshots
    /\ clock = 1
    /\ nextImg = 1
    /\ tabs = NoTabs
    /\ ev = NoEvent
    /\ ops = 0

\* The last call, as the next one remembers it.
LastCall == IF ev.op \in {"saveImage", "removeImage"}
            THEN <<[op |-> ev.op, tab |-> ev.tab, id |-> ev.id, d |-> ev.d, ok |-> ev.ok]>>
            ELSE <<>>

SaveImage(i, id, d, F) ==
    /\ store' = saveImageToStorage(store, id, d, F)
    /\ ev' = [op |-> "saveImage", tab |-> i, id |-> id, d |-> d,
              ok |-> ~Throws(F, Site("image", id)), pre |-> store, prev |-> LastCall]
    /\ UNCHANGED <<clock, nextImg, tabs, ops>>

RemoveImage(i, id, F) ==
    /\ store' = removeImageFromStorage(store, id, F)
    /\ ev' = [op |-> "removeImage", tab |-> i, id |-> id, d |-> EmptyStr,
              ok |-> ~Throws(F, Site("rmimage", id)), pre |-> store, prev |-> LastCall]
    /\ UNCHANGED <<clock, nextImg, tabs, ops>>

GetImage(i, id) ==
    /\ ev' = [op |-> "getImage", tab |-> i, id |-> id,
              ret |-> getImageFromStorage(store, id), prev |-> LastCall]
    /\ UNCHANGED <<store, clock, nextImg, tabs, ops>>

LoadImages(i) ==
    /\ ev' = [op |-> "loadImages", tab |-> i, ret |-> loadImagesFromStorage(store)]
    /\ UNCHANGED <<store, clock, nextImg, tabs, ops>>

ImgNext ==
    \/ \E i \in TabIds, id \in ImgKeys, d \in ImgVals :
          \E F \in {{}, {Site("image", id)}} : SaveImage(i, id, d, F)
    \/ \E i \in TabIds, id \in ImgKeys :
          \E F \in {{}, {Site("rmimage", id)}} : RemoveImage(i, id, F)
    \/ \E i \in TabIds, id \in ImgKeys : GetImage(i, id)
    \/ \E i \in TabIds : LoadImages(i)

ImgSpec == ImgInit /\ [][ImgNext]_vars

\* ------------------------------------------------- the storage listener
DOCS_KEY == "notes:documents"
\* The keys a storage event may carry.
StorageKeys == {DOCS_KEY, "notes:current", "notes:storage:version", "notes:doc:1"}

\* The onReplace handler of the storage listener without
\* setLastKnownSaveTime.
onReplaceStorageNoWatermark(tb, remoteDoc) ==
    [tb EXCEPT !.editor = remoteDoc.content,
               !.docs = IF tb.cur # 0 THEN Put(@, tb.cur, remoteDoc) ELSE @,
               !.modified = FALSE]
\* The onReplace handler of the storage listener.
onReplaceStorage(tb, remoteDoc) ==
    [tb EXCEPT !.editor = remoteDoc.content,
               !.docs = IF tb.cur # 0 THEN Put(@, tb.cur, remoteDoc) ELSE @,
               !.lk = remoteDoc.lastSaved,
               !.modified = FALSE]

\* The tab after the storage listener ran checkForExternalUpdates (run r).
storageHandler(tb, r) ==
    IF r.replace THEN onReplaceStorage([tb EXCEPT !.docs = r.docs], r.arg[1])
    ELSE [tb EXCEPT !.docs = r.docs]

\* A storage event for `key` delivered to tab i; r is the run of
\* checkForExternalUpdates the listener makes when the key is DOCS_KEY.
StorageChanged(i, key, t, r) ==
    /\ Budget
    /\ tabs[i].up
    /\ ev' = [op |-> "storage", tab |-> i, key |-> key, pre |-> tabs[i],
              preStore |-> store, preNext |-> nextImg, t |-> t]
    /\ IF key = DOCS_KEY
       THEN /\ r.next <= MaxImg + 1
            /\ tabs' = [tabs EXCEPT ![i] = storageHandler(@, r)]
            /\ store' = r.st
            /\ nextImg' = r.next
            /\ clock' = t
       ELSE UNCHANGED <<tabs, store, nextImg, clock>>

StorageEvent(i, key, t) ==
    StorageChanged(i, key, t,
                   checkForExternalUpdates(tabs[i].docs, tabs[i].cur, tabs[i].lk,
                                           store, t, nextImg, {}))

\* Two tabs with both triggers of the reconciliation.
TriggerNext ==
    \/ \E i \in TabIds, t \in Now(MaxClock) : Start(i, t)
    \/ \E i \in TabIds, t \in Now(MaxClock) : Create(i, t)
    \/ \E i \in TabIds, c \in Typed : Input(i, c)
    \/ \E i \in TabIds, c \in Typed : TabKey(i, c)
    \/ \E i \in TabIds, t \in Now(MaxClock) : SaveTimer(i, t)
    \/ \E i \in TabIds, t \in Now(MaxClock) : Poll(i, t)
    \/ \E i \in TabIds, key \in StorageKeys, t \in Now(MaxClock) : StorageEvent(i, key, t)

TriggerSpec == Init /\ [][TriggerNext]_vars

\* ------------------------------------------------- the debounced autosave
\* What the user can make of the editor's content in several inputs.
TypedMore == {<<TXT, TXT>>, <<TXT, WS>>}

\* The timeout of the debounce runs whenever it is due: the event loop owes
\* the exploration no budget.
Timeout(i, t) == TimerFires(i, t) /\ UNCHANGED ops

\* The tab is closed: its timers, its collection and its editor are gone.
Close(i) ==
    /\ Budget
    /\ tabs[i].up
    /\ tabs' = [tabs EXCEPT ![i] = ClosedTab]
    /\ ev' = OtherEvent
    /\ UNCHANGED <<store, clock, nextImg>>

DebounceNext ==
    \/ \E i \in TabIds, t \in Now(MaxClock) : Start(i, t)
    \/ \E i \in TabIds, id \in 1..MaxClock, t \in Now(MaxClock) : Delete(i, id, t)
    \/ \E i \in TabIds, c \in TypedMore : Input(i, c)
    \/ \E i \in TabIds, t \in Now(MaxClock) : Poll(i, t)
    \/ \E i \in TabIds : Close(i)
    \/ \E i \in TabIds, t \in Now(MaxClock) : Timeout(i, t)

\* A timeout that is set fires: the browser runs due timers of a live tab.
DebounceSpec ==
    /\ Init
    /\ [][DebounceNext]_vars
    /\ \A i \in TabIds : WF_vars(\E t \in Now(MaxClock) : Timeout(i, t))

\* ------------------------------------------- the v4 step on image stores
\* Stores before the v4 step: per-image keys and an aggregate key, absent,
\* unparsable or a map, with ids that have a per-image entry and ids that have
\* none, and empty values on either side.
PerKeySnapshots ==
    {[EmptyStore EXCEPT !.img = m, !.agg = a] :
        m \in {EmptyMap, [i \in {1} |-> UrlA], [i \in {1} |-> EmptyStr],
               [i \in {1, 2} |-> IF i = 1 THEN UrlA ELSE UrlAB]},
        a \in {AbsentKey, CorruptKey, Json([i \in {1} |-> UrlAB]),
               Json([i \in {1, 2} |-> IF i = 1 THEN UrlAB ELSE EmptyStr]),
               Json([i \in {2, 3} |-> IF i = 2 THEN UrlA ELSE UrlAB])}}

\* The image ids of these stores.
PerKeyIds == {1, 2, 3}

PerKeyInit ==
    /\ store \in PerKeySnapshots
    /\ clock = 1
    /\ nextImg = 1
    /\ tabs = NoTabs
    /\ ev = NoEvent
    /\ ops = 0

\* migrateImagesMapToPerKey() with the writes of F throwing, r its run.
PerKeyRan(F, r) ==
    /\ store' = r.st
    /\ ev' = [op |-> "perkey", F |-> F, pre |-> store, changed |-> r.changed]
    /\ UNCHANGED <<clock, nextImg, tabs, ops>>
MigratePerKey(F) == PerKeyRan(F, migrateImagesMapToPerKey(store, F))

\* saveImagesToStorage(images): the aggregate map written as the v2 step does.
WriteAggregate(images) ==
    /\ ev.op # "aggregate"
    /\ store' = saveImagesToStorage(store, images, {})
    /\ ev' = [op |-> "aggregate", pre |-> store]
    /\ UNCHANGED <<clock, nextImg, tabs, ops>>

PerKeyNext ==
    \/ \E F \in {{}, {Site("rmagg", 0)}} \cup {{Site("perkey", k)} : k \in PerKeyIds} :
          MigratePerKey(F)
    \/ \E images \in {[i \in {1} |-> UrlAB], [i \in {2, 3} |-> UrlA]} :
          WriteAggregate(images)

PerKeySpec == PerKeyInit /\ [][PerKeyNext]_vars

\* ------------------------------------------------------------ a single tab
\* One tab on a store no other tab writes: the editor started, used, closed
\* and started again.  The stores it may find: nothing, or documents 1 and 2
\* with notes:current absent, naming one of them, or naming a document that
\* is gone.
SingleStores ==
    {[EmptyStore EXCEPT !.cur = c] : c \in {0, 3}}
    \cup {[EmptyStore EXCEPT !.docs = Json([d \in {1, 2} |-> Doc("n", <<TXT>>, 1)]),
                             !.cur = c] : c \in {0, 2, 3}}
SingleInit ==
    /\ store \in SingleStores
    /\ clock = 1
    /\ nextImg = 1
    /\ tabs = [i \in TabIds |-> ClosedTab]
    /\ ev = NoEvent
    /\ ops = 0

SingleNext ==
    \/ \E t \in Now(MaxClock) : Start(1, t)
    \/ \E t \in Now(MaxClock) : Create(1, t)
    \/ \E id \in 1..MaxClock : Select(1, id)
    \/ \E id \in 1..MaxClock, t \in Now(MaxClock) : Delete(1, id, t)
    \/ \E c \in Typed : Input(1, c)
    \/ \E t \in Now(MaxClock) : SaveTimer(1, t)
    \/ \E id \in 1..MaxClock, l \in Titles, t \in Now(MaxClock) : Rename(1, id, l, t)
    \/ \E t \in Now(MaxClock) : Poll(1, t)
    \/ Close(1)

SingleSpec == SingleInit /\ [][SingleNext]_vars

\* ------------------------------------------------- stores of any version
\* Tabs and direct loads on stores found at any schema version, a later one
\* than this build's included: the documents map, the image keys and the
\* version key as some build of the program left them.
HIGHER_VERSION == CURRENT_STORAGE_VERSION + 1
VerDocsKey ==
    {AbsentKey, CorruptKey,
     Json([d \in {1} |-> Doc("n", <<Img(UrlA)>>, 1)]),
     Json([d \in {1, 2} |-> Doc("n", IF d = 1 THEN <<TXT>> ELSE <<>>, 1)])}
VerImages ==
    {<<AbsentKey, EmptyMap>>, <<Json([i \in {1} |-> UrlAB]), EmptyMap>>}
VerVersions == {<<>>, <<3>>, <<CURRENT_STORAGE_VERSION>>, <<HIGHER_VERSION>>}
VerSnapshots ==
    {[docs |-> d, body |-> EmptyMap, img |-> i[2], agg |-> i[1], ver |-> v,
      cur |-> 0] :
        d \in VerDocsKey, i \in VerImages, v \in VerVersions}

VerInit ==
    /\ store \in VerSnapshots
    /\ clock = 1
    /\ nextImg = Cardinality(InitDocIds) + 1
    /\ tabs = [i \in TabIds |-> ClosedTab]
    /\ ev = NoEvent
    /\ ops = 0

VerNext ==
    \/ \E i \in TabIds, t \in Now(MaxClock) : Start(i, t)
    \/ \E i \in TabIds, id \in 1..MaxClock, l \in Titles, t \in Now(MaxClock) :
          Rename(i, id, l, t)
    \/ \E i \in TabIds, t \in Now(MaxClock) : Poll(i, t)
    \/ \E F \in FailSets, t \in Now(MaxClock) : LoadAll(F, t)

VersionSpec == VerInit /\ [][VerNext]_vars

\* ------------------------------------------- two loads, call by call
\* loadDocsFromStorage run by two tabs at once on a store older than
\* version 2, one localStorage access (or one function's run of accesses) at
\* a time.  tabs[i] is the call of tab i: where it is (pc) and its local
\* variables (parsed, ver, the images map of the v2 step, the aggregate map the
\* v4 step parsed).
LoaderStart ==
    [pc |-> "docs", parsed |-> EmptyMap, ver |-> 0, images |-> EmptyMap,
     agg |-> EmptyMap]
ConcSnapshots ==
    {[EmptyStore EXCEPT !.docs = Json(m)] :
        m \in {[d \in {1} |-> Doc("n", <<Img(UrlA)>>, 1)],
               [d \in {1, 2} |-> Doc("n", IF d = 1 THEN <<Img(UrlA)>> ELSE <<TXT>>, 1)],
               [d \in {1, 2} |-> Doc("n", <<Img(UrlA)>>, 1)]}}
ConcInit ==
    /\ store \in ConcSnapshots
    /\ clock = 1
    /\ nextImg = 1
    /\ tabs = [i \in TabIds |-> LoaderStart]
    /\ ev = [op |-> "concurrent", pre |-> store]
    /\ ops = 0

\* const raw = localStorage.getItem(DOCS_KEY); parsed = JSON.parse(raw)
ReadDocs(i) ==
    /\ tabs[i].pc = "docs"
    /\ tabs' = [tabs EXCEPT ![i] =
                  IF store.docs.st # "ok" THEN [@ EXCEPT !.pc = "done"]
                  ELSE [@ EXCEPT !.pc = "version", !.parsed = store.docs.m]]
    /\ UNCHANGED <<store, clock, nextImg, ev, ops>>

\* The step the call turns to after step `done` with the version `ver` read.
AfterStep(ver, done) ==
    IF ver < 2 /\ done < 2 THEN "scan"
    ELSE IF ver < 3 /\ done < 3 THEN "split"
         ELSE IF ver < 4 /\ done < 4 THEN "aggregate"
              ELSE IF ver < CURRENT_STORAGE_VERSION THEN "setversion" ELSE "done"

\* const ver = getStorageVersion()
ReadVersion(i) ==
    /\ tabs[i].pc = "version"
    /\ tabs' = [tabs EXCEPT ![i] =
                  [@ EXCEPT !.ver = getStorageVersion(store),
                            !.pc = AfterStep(getStorageVersion(store), 1)]]
    /\ UNCHANGED <<store, clock, nextImg, ev, ops>>

\* migrateDocsImages up to its write: the images read, the documents rewritten
\* in memory; r is the run of its for loop.
Scanned(i, t, r) ==
    /\ tabs[i].pc = "scan"
    /\ r.next <= MaxImg + 1
    /\ tabs' = [tabs EXCEPT ![i] =
                  [@ EXCEPT !.parsed = r.docs, !.images = r.images,
                            !.pc = IF r.changed THEN "saveimages"
                                   ELSE AfterStep(tabs[i].ver, 2)]]
    /\ nextImg' = r.next
    /\ clock' = t
    /\ UNCHANGED <<store, ev, ops>>
ScanImages(i, t) ==
    Scanned(i, t, ScanDocs(SortedSeq(DOMAIN tabs[i].parsed), tabs[i].parsed,
                           loadImagesFromStorage(store), FALSE, nextImg, t))

\* if (changed) saveImagesToStorage(images)
WriteImages(i) ==
    /\ tabs[i].pc = "saveimages"
    /\ store' = saveImagesToStorage(store, tabs[i].images, {})
    /\ tabs' = [tabs EXCEPT ![i].pc = "savedocs2"]
    /\ UNCHANGED <<clock, nextImg, ev, ops>>

\* if (changed) saveDocsToStorage(parsed), after the v2 step (n = 2) and after
\* the v3 step (n = 3)
WriteDocs(i, n) ==
    /\ tabs[i].pc = IF n = 2 THEN "savedocs2" ELSE "savedocs3"
    /\ store' = saveDocsToStorage(store, tabs[i].parsed)
    /\ tabs' = [tabs EXCEPT ![i].pc = AfterStep(tabs[i].ver, n)]
    /\ UNCHANGED <<clock, nextImg, ev, ops>>

\* migrateSplitDocs: the body slots written, the contents cleared in memory;
\* r is its run.
Split(i, t, r) ==
    /\ tabs[i].pc = "split"
    /\ store' = r.st
    /\ tabs' = [tabs EXCEPT ![i] =
                  [@ EXCEPT !.parsed = r.docs,
                            !.pc = IF r.changed THEN "savedocs3"
                                   ELSE AfterStep(tabs[i].ver, 3)]]
    /\ clock' = t
    /\ UNCHANGED <<nextImg, ev, ops>>
SplitBodies(i, t) == Split(i, t, migrateSplitDocs(tabs[i].parsed, store, t, {}))

\* migrateImagesMapToPerKey: const raw = localStorage.getItem(IMAGES_KEY);
\* if (!raw) return false; const parsed = JSON.parse(raw)
ReadAggregate(i) ==
    /\ tabs[i].pc = "aggregate"
    /\ tabs' = [tabs EXCEPT ![i] =
                  IF store.agg.st # "ok" THEN [@ EXCEPT !.pc = AfterStep(tabs[i].ver, 4)]
                  ELSE [@ EXCEPT !.agg = store.agg.m, !.pc = "perkey"]]
    /\ UNCHANGED <<store, clock, nextImg, ev, ops>>

\* The for loop of migrateImagesMapToPerKey over the map it parsed.
WritePerKey(i) ==
    /\ tabs[i].pc = "perkey"
    /\ store' = PerKeyLoop(SortedSeq(DOMAIN tabs[i].agg), tabs[i].agg, store,
                           FALSE, {}).st
    /\ tabs' = [tabs EXCEPT ![i].pc = "rmaggregate"]
    /\ UNCHANGED <<clock, nextImg, ev, ops>>

\* localStorage.removeItem(IMAGES_KEY)
DropAggregate(i) ==
    /\ tabs[i].pc = "rmaggregate"
    /\ store' = [store EXCEPT !.agg = AbsentKey]
    /\ tabs' = [tabs EXCEPT ![i].pc = AfterStep(tabs[i].ver, 4)]
    /\ UNCHANGED <<clock, nextImg, ev, ops>>

\* if (ver < CURRENT_STORAGE_VERSION) setStorageVersion(CURRENT_STORAGE_VERSION)
WriteVersion(i) ==
    /\ tabs[i].pc = "setversion"
    /\ store' = setStorageVersion(store, CURRENT_STORAGE_VERSION)
    /\ tabs' = [tabs EXCEPT ![i].pc = "done"]
    /\ UNCHANGED <<clock, nextImg, ev, ops>>

ConcNext ==
    \/ \E i \in TabIds : ReadDocs(i)
    \/ \E i \in TabIds : ReadVersion(i)
    \/ \E i \in TabIds, t \in Now(MaxMigClock) : ScanImages(i, t)
    \/ \E i \in TabIds : WriteImages(i)
    \/ \E i \in TabIds, n \in {2, 3} : WriteDocs(i, n)
    \/ \E i \in TabIds, t \in Now(MaxMigClock) : SplitBodies(i, t)
    \/ \E i \in TabIds : ReadAggregate(i)
    \/ \E i \in TabIds : WritePerKey(i)
    \/ \E i \in TabIds : DropAggregate(i)
    \/ \E i \in TabIds : WriteVersion(i)

ConcSpec == ConcInit /\ [][ConcNext]_vars

\* ------------------------------------------------- unreferenced images
\* What /notes:image:([A-Za-z0-9\-_]+)/g captures in one src string: the id and
\* the id characters that directly follow it.  A per-image key notes:image:<k>
\* carries the id k with nothing after it.
CapturedId(s) == [id |-> s.id, tail |-> s.p]
ImageKeyId(k) == [id |-> k, tail |-> <<>>]

\* while ((m = re.exec(text)) !== null) ids.add(m[1])
RECURSIVE ExecAll(_, _)
ExecAll(text, ids) ==
    IF text = <<>> THEN ids
    ELSE ExecAll(Tail(text),
                 IF Head(text).src.t = "ph" THEN ids \cup {CapturedId(Head(text).src)}
                 ELSE ids)

\* The two loops of findReferencedImageIds: the documents handed over, then
\* the notes:doc:<id> keys of the store.
RECURSIVE ScanInline(_, _, _)
ScanInline(keys, docs, ids) ==
    IF keys = <<>> THEN ids
    ELSE ScanInline(Tail(keys), docs, ExecAll(docs[Head(keys)].content, ids))
RECURSIVE ScanSlots(_, _, _)
ScanSlots(keys, st, ids) ==
    IF keys = <<>> THEN ids
    ELSE ScanSlots(Tail(keys), st, ExecAll(st.body[Head(keys)], ids))

\* The first loop only: the body slots are not scanned.
findReferencedInline(docs, st) ==
    ScanInline(SortedSeq(DOMAIN docs), docs, {})
findReferencedImageIds(docs, st) ==
    ScanSlots(SortedSeq(DOMAIN st.body), st,
              ScanInline(SortedSeq(DOMAIN docs), docs, {}))

\* localStorage.key(i) over the keys in the order the browser keeps them: an
\* image id stands for its notes:image:<id> key, OtherKey for any other key.
\* Removing the key at index i moves the later keys one index down.
OtherKey == 0
RemoveAt(keys, i) == SubSeq(keys, 1, i - 1) \o SubSeq(keys, i + 1, Len(keys))

\* for (let i = 0; i < localStorage.length; i++) of removeUnreferencedImages,
\* i counted from 1.
RECURSIVE SweepLoop(_, _, _, _, _)
SweepLoop(keys, i, referenced, st, removed) ==
    IF i > Len(keys) THEN [st |-> st, removed |-> removed]
    ELSE IF keys[i] # OtherKey /\ ImageKeyId(keys[i]) \notin referenced
         THEN SweepLoop(RemoveAt(keys, i), i + 1, referenced,
                        [st EXCEPT !.img = Del(@, keys[i])],
                        removed \cup {keys[i]})
         ELSE SweepLoop(keys, i + 1, referenced, st, removed)

removeUnreferencedImages(docs, st, keys) ==
    SweepLoop(keys, 1, findReferencedImageIds(docs, st), st, {})

\* The orders localStorage may keep the image keys and one other key in.
KeyOrders(st) ==
    LET S == (DOMAIN st.img) \cup {OtherKey}
    IN {f \in [1..Cardinality(S) -> S] : \A a, b \in 1..Cardinality(S) : f[a] = f[b] => a = b}

SweepContents ==
    {<<>>, <<TXT>>, <<Img(Ph(1, <<>>))>>, <<Img(Ph(1, <<"b">>))>>,
     <<Raw(Ph(3, <<>>)), Img(Ph(1, <<>>))>>}
SweepImgIds == {1, 2, 3}
\* Stores at the current version: one or two documents, body slots (slot 3 is
\* the slot of a document no longer in the map), per-image keys.
SweepSnapshots ==
    {[EmptyStore EXCEPT !.docs = Json(m), !.body = b, !.img = g,
                        !.ver = <<CURRENT_STORAGE_VERSION>>] :
        m \in {[d \in {1} |-> Doc("n", c, 1)] : c \in SweepContents}
              \cup {[d \in {1, 2} |-> Doc("n", IF d = 1 THEN <<>> ELSE c, 1)] :
                       c \in SweepContents},
        b \in {EmptyMap, [d \in {1} |-> <<Img(Ph(2, <<>>))>>],
               [d \in {3} |-> <<Img(Ph(3, <<>>))>>],
               [d \in {1} |-> <<>>]},
        g \in UNION {[S -> {UrlA}] : S \in SUBSET SweepImgIds}}

SweepInit ==
    /\ store \in SweepSnapshots
    /\ clock = 1
    /\ nextImg = 1
    /\ tabs = NoTabs
    /\ ev = NoEvent
    /\ ops = 0

\* findReferencedImageIds(docs) on the documents of the store.
FindReferenced ==
    /\ store.docs.st = "ok"
    /\ ev' = [op |-> "referenced", docs |-> store.docs.m,
              ret |-> findReferencedImageIds(store.docs.m, store)]
    /\ UNCHANGED <<store, clock, nextImg, tabs, ops>>

\* removeUnreferencedImages(docs) on the documents of the store, r its run.
Swept(keys, r) ==
    /\ store' = r.st
    /\ ev' = [op |-> "sweep", keys |-> keys, pre |-> store, docs |-> store.docs.m,
              removed |-> r.removed, ret |-> r.removed # {}]
    /\ UNCHANGED <<clock, nextImg, tabs, ops>>
Sweep(keys) ==
    /\ store.docs.st = "ok"
    /\ Swept(keys, removeUnreferencedImages(store.docs.m, store, keys))

SweepNext ==
    \/ FindReferenced
    \/ \E keys \in KeyOrders(store) : Sweep(keys)

SweepSpec == SweepInit /\ [][SweepNext]_vars

\* --------------------------------------------------- reconciliation claims
\* After a reconcile, ev holds the tab record before it (ev.pre), the snapshot
\* `remote` it loaded and what it returned; tabs[ev.tab] is the tab after it.
Reconciled1 == ev.op = "reconcile"
Differs(local, remote, id) ==
    id \notin DOMAIN local \/ local[id].lastSaved # remote[id].lastSaved
\* The open document has edits in the editor that are not persisted: the
\* modified flag is set or the debounced save is pending.
Unsaved(tb) == tb.cur # 0 /\ (tb.modified \/ tb.timer)

\* C1: for every id of the stored map, if the id is absent locally or its stored
\* lastSaved differs from the local one, the local entry is the stored one after
\* reconcile and changed is true; if no id differs and none is missing on
\* either side, changed is false and the local collection is unchanged.
C1_MergeRemote ==
    Reconciled1 =>
       /\ \A id \in DOMAIN ev.remote :
             Differs(ev.pre.docs, ev.remote, id)
             => /\ id \in DOMAIN tabs[ev.tab].docs
                /\ tabs[ev.tab].docs[id] = ev.remote[id]
                /\ ev.changed
       /\ ((\A id \in DOMAIN ev.remote : ~Differs(ev.pre.docs, ev.remote, id))
             /\ DOMAIN ev.pre.docs = DOMAIN ev.remote)
          => ~ev.changed /\ tabs[ev.tab].docs = ev.pre.docs

\* A reconcile took over one document missing locally and one whose lastSaved
\* differed.
C1_Witness ==
    /\ Reconciled1
    /\ \E id \in DOMAIN ev.remote : id \notin DOMAIN ev.pre.docs
    /\ \E id \in DOMAIN ev.remote \cap DOMAIN ev.pre.docs :
          /\ ev.pre.docs[id].lastSaved # ev.remote[id].lastSaved
          /\ tabs[ev.tab].docs[id] = ev.remote[id]

\* C2 as claimed: a stored copy with a higher lastSaved than the local copy
\* replaces it and changed is true; a stored copy with a lower lastSaved leaves
\* the local copy unchanged.
C2_LowerLeftAlone ==
    Reconciled1 =>
       \A id \in DOMAIN ev.remote \cap DOMAIN ev.pre.docs :
          /\ ev.remote[id].lastSaved > ev.pre.docs[id].lastSaved
             => tabs[ev.tab].docs[id] = ev.remote[id] /\ ev.changed
          /\ ev.remote[id].lastSaved < ev.pre.docs[id].lastSaved
             => tabs[ev.tab].docs[id] = ev.pre.docs[id]

\* C2 amended: a stored copy with a higher lastSaved than the local copy
\* replaces it and changed is true, and so does a stored copy with a lower
\* lastSaved; only a stored copy with the same lastSaved leaves the entry of a
\* document that is not replaced as the open document as it was.
C2_AnyDifferenceWins ==
    Reconciled1 =>
       \A id \in DOMAIN ev.remote \cap DOMAIN ev.pre.docs :
          /\ ev.remote[id].lastSaved > ev.pre.docs[id].lastSaved
             => tabs[ev.tab].docs[id] = ev.remote[id] /\ ev.changed
          /\ ev.remote[id].lastSaved < ev.pre.docs[id].lastSaved
             => tabs[ev.tab].docs[id] = ev.remote[id] /\ ev.changed
          /\ (ev.remote[id].lastSaved = ev.pre.docs[id].lastSaved /\ ev.arg = <<>>)
             => tabs[ev.tab].docs[id] = ev.pre.docs[id]

\* A stored copy with a lower lastSaved replaced a local copy.
C2_Witness ==
    /\ Reconciled1
    /\ \E id \in DOMAIN ev.remote \cap DOMAIN ev.pre.docs :
          /\ ev.remote[id].lastSaved < ev.pre.docs[id].lastSaved
          /\ tabs[ev.tab].docs[id] = ev.remote[id]
          /\ tabs[ev.tab].docs[id] # ev.pre.docs[id]

\* C3: every id of the local collection that the stored map lacks is removed by
\* reconcile and changed is true; no id of the stored map is removed.
C3_DeletionPropagates ==
    Reconciled1 =>
       /\ \A id \in DOMAIN ev.pre.docs \ DOMAIN ev.remote :
             id \notin DOMAIN tabs[ev.tab].docs /\ ev.changed
       /\ \A id \in DOMAIN ev.remote : id \in DOMAIN tabs[ev.tab].docs

\* A reconcile removed one document and kept another it held before.
C3_Witness ==
    /\ Reconciled1
    /\ \E id \in DOMAIN ev.pre.docs :
          id \notin DOMAIN ev.remote /\ id \notin DOMAIN tabs[ev.tab].docs
    /\ DOMAIN ev.pre.docs \cap DOMAIN ev.remote # {}

\* C4: onReplace is called, with the stored copy, and a new watermark equal to
\* the stored lastSaved is returned, if and only if currentId is not null, the
\* id is in the stored map and the stored lastSaved is strictly greater than the
\* watermark passed in; otherwise no call and no new watermark.
C4_ReplaceIffNewer ==
    Reconciled1 =>
       IF /\ ev.pre.cur # 0
          /\ ev.pre.cur \in DOMAIN ev.remote
          /\ ev.remote[ev.pre.cur].lastSaved > ev.pre.lk
       THEN /\ \E n \in DOMAIN ev.calls : ev.calls[n] = "onReplace"
            /\ ev.arg = <<ev.remote[ev.pre.cur]>>
            /\ ev.newLK = <<ev.remote[ev.pre.cur].lastSaved>>
       ELSE /\ \A n \in DOMAIN ev.calls : ev.calls[n] # "onReplace"
            /\ ev.arg = <<>>
            /\ ev.newLK = <<>>

\* onReplace was called for a stored copy newer than the watermark.
C4_Witness ==
    /\ Reconciled1
    /\ ev.pre.cur \in DOMAIN ev.remote
    /\ ev.remote[ev.pre.cur].lastSaved > ev.pre.lk
    /\ ev.newLK # <<>>
    /\ ev.arg # <<>>

\* C5: in one reconcile, onChange is called exactly once if changed is true and
\* not at all otherwise, also when the open document was untouched; when both
\* handlers are called, onChange is called before onReplace.
C5_OnChangeOnceAndFirst ==
    Reconciled1 =>
       /\ Cardinality({n \in DOMAIN ev.calls : ev.calls[n] = "onChange"})
             = IF ev.changed THEN 1 ELSE 0
       /\ \A m, n \in DOMAIN ev.calls :
             (ev.calls[m] = "onChange" /\ ev.calls[n] = "onReplace") => m < n

\* Both handlers were called in one reconcile.
C5_Witness ==
    /\ Reconciled1
    /\ ev.changed
    /\ \E m, n \in DOMAIN ev.calls :
          ev.calls[m] = "onChange" /\ ev.calls[n] = "onReplace"

\* C6 as claimed: when the open document has edits in the editor that are not
\* persisted, a reconcile leaves the editor's content and the modified flag as
\* they were.
C6_EditsSurvive ==
    (Reconciled1 /\ Unsaved(ev.pre))
    => /\ tabs[ev.tab].editor = ev.pre.editor
       /\ tabs[ev.tab].modified = ev.pre.modified

\* C6 amended: when the open document has edits in the editor that are not
\* persisted, a reconcile leaves the editor's content, the modified flag and the
\* pending save as they were unless the stored map holds the open document with
\* a lastSaved strictly greater than the tab's watermark; in that case the
\* editor holds the stored content and the edits are gone.
C6_EditsSurviveUnlessNewer ==
    (Reconciled1 /\ Unsaved(ev.pre))
    => /\ tabs[ev.tab].timer = ev.pre.timer
       /\ IF ev.pre.cur \in DOMAIN ev.remote
             /\ ev.remote[ev.pre.cur].lastSaved > ev.pre.lk
          THEN tabs[ev.tab].editor = ev.remote[ev.pre.cur].content
          ELSE /\ tabs[ev.tab].editor = ev.pre.editor
               /\ tabs[ev.tab].modified = ev.pre.modified

\* A reconcile merged another tab's write into the collection and left the
\* unsaved edits of the open document alone.
C6_Witness ==
    /\ Reconciled1 /\ Unsaved(ev.pre)
    /\ ev.changed
    /\ tabs[ev.tab].docs # ev.pre.docs
    /\ ev.arg = <<>>
    /\ ev.pre.cur \in DOMAIN ev.pre.docs
    /\ tabs[ev.tab].editor # ev.pre.docs[ev.pre.cur].content
    /\ tabs[ev.tab].editor = ev.pre.editor

\* C7: if the open document has edits that are not persisted and the stored map
\* holds it with a lastSaved greater than this tab's watermark, then at the
\* tab's reconcile the stored copy replaces the editor's content and the
\* in-memory entry, the watermark becomes the stored lastSaved and the modified
\* flag is cleared.
C7_RemoteWins ==
    (/\ Reconciled1 /\ Unsaved(ev.pre)
     /\ ev.pre.cur \in DOMAIN ev.remote
     /\ ev.remote[ev.pre.cur].lastSaved > ev.pre.lk)
    => /\ tabs[ev.tab].editor = ev.remote[ev.pre.cur].content
       /\ tabs[ev.tab].docs[ev.pre.cur] = ev.remote[ev.pre.cur]
       /\ tabs[ev.tab].lk = ev.remote[ev.pre.cur].lastSaved
       /\ ~tabs[ev.tab].modified

\* The stored copy replaced an editor whose modified flag was set and whose
\* content differed from it.
C7_Witness ==
    /\ Reconciled1
    /\ ev.pre.cur # 0 /\ ev.pre.modified
    /\ ev.pre.cur \in DOMAIN ev.remote
    /\ ev.remote[ev.pre.cur].lastSaved > ev.pre.lk
    /\ ev.pre.editor # ev.remote[ev.pre.cur].content
    /\ tabs[ev.tab].editor = ev.remote[ev.pre.cur].content

\* ------------------------------------------------------ migration claims
HasImgData(content) ==
    \E n \in 1..Len(content) : content[n].k = "img" /\ content[n].src.t = "data"
HasDataUrl(content) ==
    \E n \in 1..Len(content) : content[n].src.t = "data"

\* A load that found a parsable documents map below the current version.
LoadBelow(v) ==
    /\ ev.op = "load"
    /\ ev.pre.docs.st = "ok"
    /\ getStorageVersion(ev.pre) < v

\* C8: whenever loadAll finds a stored version below CURRENT (an absent version
\* key included) and no write throws, the stored version is CURRENT when it
\* returns.
C8_VersionCurrentAfterLoad ==
    (ev.op = "load" /\ ev.F = {}
        /\ getStorageVersion(ev.pre) < CURRENT_STORAGE_VERSION)
    => getStorageVersion(store) = CURRENT_STORAGE_VERSION

C10_Idempotent ==
    /\ (ev.op = "load" /\ ev.chain = 2) => DataKeys(store) = DataKeys(ev.pre)
    /\ (ev.op = "step" /\ ev.again) => store = ev.pre

\* The chain ran twice and its first run changed the store.
C10_Witness == ev.op = "load" /\ ev.chain = 2 /\ ev.prevDelta /\ clock > 1

\* A body with every placeholder resolved through the per-image keys: what the
\* names of the image ids do not change.
ResolveSrc(src, img) ==
    IF src.t = "ph" /\ src.id \in DOMAIN img
    THEN [t |-> "ref", url |-> img[src.id], p |-> src.p]
    ELSE [t |-> src.t, url |-> src, p |-> <<>>]
Resolve(content, img) ==
    [n \in 1..Len(content) |-> [k |-> content[n].k, src |-> ResolveSrc(content[n].src, img)]]
\* The store up to the names of allocated image ids and the lastSaved stamps:
\* titles and bodies, how many ids hold each image, the aggregate key, the version.
StoreView(st) ==
    [docs |-> [d \in DOMAIN st.docs.m |->
                  [title |-> st.docs.m[d].title,
                   content |-> Resolve(st.docs.m[d].content, st.img)]],
     docsKey |-> st.docs.st,
     body |-> [d \in DOMAIN st.body |-> Resolve(st.body[d], st.img)],
     images |-> [u \in {st.img[i] : i \in DOMAIN st.img} |->
                    Cardinality({i \in DOMAIN st.img : st.img[i] = u})],
     agg |-> st.agg,
     ver |-> st.ver]

\* C11: if a tab dies during loadAll's migration after any one store write and
\* before the version write, or the version write is lost, the next loadAll
\* leaves the store an uninterrupted migration of the first snapshot leaves (up
\* to the names of the image ids allocated and the lastSaved stamps): every body
\* and every image is there once.
C11_CrashSafe == ev.op = "reload" => StoreView(store) = StoreView(ev.ref)

\* The tab died in the middle of a step, and the next load finished the work.
C11_Witness ==
    /\ ev.op = "reload"
    /\ ev.mid # ev.pre0
    /\ DataKeys(store) # DataKeys(ev.mid)
    /\ ev.k < Len(CrashOrder) - 1
    /\ getStorageVersion(store) = CURRENT_STORAGE_VERSION

\* The steps whose target version is greater than v, in ascending order.
RECURSIVE StepsAbove(_, _)
StepsAbove(v, n) ==
    IF n > CURRENT_STORAGE_VERSION THEN <<>>
    ELSE (IF n > v THEN <<StepRun(n)>> ELSE <<>>) \o StepsAbove(v, n + 1)

\* C12: a loadAll that reads a stored version v below CURRENT runs exactly the
\* steps whose target version is greater than v, in the order v2, v3, v4, then
\* writes the version once, to CURRENT; under any failure what it has run is a
\* start of that list, and the stored version is what it was or CURRENT.
C12_StepsInOrder ==
    (ev.op = "load" /\ ev.pre.docs.st = "ok")
    => /\ ev.F = {} /\ getStorageVersion(ev.pre) < CURRENT_STORAGE_VERSION
          => /\ ev.ran = Append(StepsAbove(getStorageVersion(ev.pre), 2),
                                VersionWrite(CURRENT_STORAGE_VERSION))
             /\ store.ver = <<CURRENT_STORAGE_VERSION>>
       /\ \E n \in 0..Len(ev.ran) :
             /\ SubSeq(ev.ran, 1, n)
                   = SubSeq(StepsAbove(getStorageVersion(ev.pre), 2), 1, n)
             /\ \A m \in (n + 1)..Len(ev.ran) :
                   /\ m = Len(ev.ran)
                   /\ n = Len(StepsAbove(getStorageVersion(ev.pre), 2))
                   /\ ev.ran[m] = VersionWrite(CURRENT_STORAGE_VERSION)
       /\ store.ver \in {ev.pre.ver, <<CURRENT_STORAGE_VERSION>>}

\* A load that found version 2 ran v3 and v4, not v2, and the v3 step moved a
\* body.
C12_Witness ==
    /\ ev.op = "load" /\ ev.F = {}
    /\ ev.pre.ver = <<2>>
    /\ ev.ran = <<StepRun(3), StepRun(CURRENT_STORAGE_VERSION),
                  VersionWrite(CURRENT_STORAGE_VERSION)>>
    /\ store.body # ev.pre.body
    /\ store.ver = <<CURRENT_STORAGE_VERSION>>

\* C13, for the write of a body slot: if saveDocContent throws inside the v3
\* step of a loadAll, the load still returns every parsed document and does not
\* advance the stored version.
C13_VersionKeptOnThrow ==
    (/\ ev.op = "load" /\ ev.pre.docs.st = "ok"
     /\ getStorageVersion(ev.pre) < 3
     /\ ev.F = {Site("body", 1)}
     /\ 1 \in DOMAIN ev.pre.docs.m
     /\ NonBlank(ev.pre.docs.m[1].content))
    => /\ DOMAIN ev.ret = DOMAIN ev.pre.docs.m
       /\ store.ver = ev.pre.ver

\* C14, for the write of the documents map: when the write made by creating a
\* document, deleting a document or saving the open document fails, no exception
\* leaves the operation, and the tab's open document is still in its collection.
C14_WriteFailureIsNoOp ==
    (ev.op = "write" /\ ev.failed)
    => /\ ~ev.threw
       /\ tabs[ev.tab].cur \in DOMAIN tabs[ev.tab].docs

\* C15: when the documents key holds a value that is not valid JSON, or is
\* absent, the load returns the empty collection, raises nothing and leaves the
\* store as it is; when the aggregate images key is not valid JSON, or is
\* absent, it adds nothing to the images loaded (none when there is no per-image
\* key).
C15_MalformedIsEmpty ==
    /\ (ev.op = "load" /\ ev.pre.docs.st \in {"corrupt", "absent"})
       => /\ ev.ret = EmptyMap
          /\ ~ev.failed /\ ev.ran = <<>>
          /\ store = ev.pre
    /\ store.agg.st \in {"corrupt", "absent"}
       => /\ loadImagesFromStorage(store) = store.img
          /\ DOMAIN store.img = {} => loadImagesFromStorage(store) = EmptyMap

\* A load found an unparsable documents key and an unparsable aggregate images
\* key, with nothing else to load images from.
C15_Witness ==
    /\ ev.op = "load"
    /\ ev.pre.docs.st = "corrupt"
    /\ store.agg.st = "corrupt"
    /\ DOMAIN store.img = {}
    /\ ev.ret = EmptyMap

\* What the store holds of document d: its entry of the documents map and its
\* body slot.
StoredDoc(st, d) ==
    [meta |-> st.docs.m[d],
     body |-> IF d \in DOMAIN st.body THEN <<st.body[d]>> ELSE <<>>]

\* C16: whenever an operation of any tab changes what the store holds of a
\* document (its title, content or body), the document's stored lastSaved after
\* the operation is strictly greater than before.
C16_LastSavedIncreases ==
    [][\A d \in DOMAIN store.docs.m \cap DOMAIN store'.docs.m :
          StoredDoc(store', d) # StoredDoc(store, d)
          => store'.docs.m[d].lastSaved > store.docs.m[d].lastSaved]_vars

\* C16 with a clock that never returns the same value to two operations: the
\* stored lastSaved of a document never decreases.
C16_LastSavedNeverDecreases ==
    [][\A d \in DOMAIN store.docs.m \cap DOMAIN store'.docs.m :
          store'.docs.m[d].lastSaved >= store.docs.m[d].lastSaved]_vars

\* C17: a write of the documents map overwrites the whole map with the writing
\* tab's collection, so the documents the store holds are always exactly the
\* documents one tab holds, whatever another tab had persisted before;
\* documents persisted by the other tab disappear from the store with no
\* delete, and that tab drops them at its next reconcile.
C17_WholeMapOverwrite ==
    store.docs.st = "ok"
    => \E i \in TabIds : tabs[i].up /\ DOMAIN tabs[i].docs = DOMAIN store.docs.m

\* With no tab ever deleting a document, a tab's reconcile dropped a document
\* it had created and persisted, and the store no longer holds it.
C17_Witness ==
    /\ ev.op = "reconcile"
    /\ \E d \in DOMAIN ev.pre.docs :
          /\ d \notin DOMAIN ev.remote
          /\ d \notin DOMAIN store.docs.m
          /\ d \notin DOMAIN tabs[ev.tab].docs
          /\ ev.pre.docs[d].title = "New note"

\* C18: saving an image under id X writes only the per-image key of X: every
\* other image key and every other key of the store holds what it held, and
\* when two tabs save different images one after the other, both are stored.
C18_SaveWritesOneKey ==
    ev.op = "saveImage"
    => /\ \A k \in (DOMAIN ev.pre.img) \ {ev.id} :
             k \in DOMAIN store.img /\ store.img[k] = ev.pre.img[k]
       /\ DOMAIN store.img \subseteq (DOMAIN ev.pre.img) \cup {ev.id}
       /\ [store EXCEPT !.img = EmptyMap] = [ev.pre EXCEPT !.img = EmptyMap]
       /\ ev.ok => ev.id \in DOMAIN store.img /\ store.img[ev.id] = ev.d
       /\ \A c \in {ev.prev[n] : n \in DOMAIN ev.prev} :
             (c.op = "saveImage" /\ c.ok /\ c.tab # ev.tab /\ c.id # ev.id)
             => c.id \in DOMAIN store.img /\ store.img[c.id] = c.d

\* Two tabs saved different images one after the other, next to an image and an
\* aggregate key the store held before; the second save is stored.
C18_Witness ==
    /\ ev.op = "saveImage" /\ ev.ok
    /\ ev.prev # <<>>
    /\ ev.prev[1].op = "saveImage" /\ ev.prev[1].ok
    /\ ev.prev[1].tab # ev.tab /\ ev.prev[1].id # ev.id
    /\ ev.d # EmptyStr /\ ev.prev[1].d # EmptyStr /\ ev.d # ev.prev[1].d
    /\ store.agg.st = "ok"
    /\ store.img[ev.id] = ev.d
    /\ store.img # ev.pre.img

\* C19 as claimed: after a save of d under id that succeeded, get(id) returns
\* d; after a remove of id that succeeded, get(id) returns nothing; get of an
\* id the store has no key for returns nothing.
C19_RoundTrip ==
    /\ (ev.op = "saveImage" /\ ev.ok) => getImageFromStorage(store, ev.id) = <<ev.d>>
    /\ (ev.op = "removeImage" /\ ev.ok) => getImageFromStorage(store, ev.id) = <<>>
    /\ \A id \in ImgKeys :
          id \notin DOMAIN store.img => getImageFromStorage(store, id) = <<>>

\* C19 amended: after a save of a non-empty d under id that succeeded, get(id)
\* returns d, whatever the key held before; after a save of the empty string
\* get(id) returns nothing; after a remove of id that succeeded, and for an id
\* the store has no key for, get(id) returns nothing.
C19_RoundTripNonEmpty ==
    /\ (ev.op = "saveImage" /\ ev.ok)
       => getImageFromStorage(store, ev.id)
             = IF ev.d # EmptyStr THEN <<ev.d>> ELSE <<>>
    /\ (ev.op = "removeImage" /\ ev.ok) => getImageFromStorage(store, ev.id) = <<>>
    /\ \A id \in ImgKeys :
          id \notin DOMAIN store.img => getImageFromStorage(store, id) = <<>>
    /\ ev.op = "getImage"
       => ev.ret = IF ev.id \in DOMAIN store.img /\ store.img[ev.id] # EmptyStr
                   THEN <<store.img[ev.id]>> ELSE <<>>

\* A get returned the value that the save just before it had stored under
\* the id.
C19_Witness ==
    /\ ev.op = "getImage"
    /\ ev.prev # <<>>
    /\ ev.prev[1].op = "saveImage" /\ ev.prev[1].ok /\ ev.prev[1].id = ev.id
    /\ ev.prev[1].d = UrlAB
    /\ ev.ret = <<UrlAB>>

\* The map the aggregate key holds, empty when the key is absent or unparsable.
AggregateMap(st) == IF st.agg.st = "ok" THEN st.agg.m ELSE EmptyMap

\* C20 as claimed: loading the images returns exactly the per-image keys with
\* their values when at least one such key exists, the aggregate map only when
\* no per-image key exists, and the empty map when neither exists.
C20_PerKeyFirst ==
    ev.op = "loadImages"
    => ev.ret = IF DOMAIN store.img # {} THEN store.img ELSE AggregateMap(store)

\* C20 amended: loading the images returns exactly the per-image keys that hold
\* a non-empty value, with their values, when at least one such key exists;
\* the aggregate map only when no per-image key holds a non-empty value; and
\* the empty map when neither exists.
C20_NonEmptyPerKeyFirst ==
    ev.op = "loadImages"
    => /\ (\E i \in DOMAIN store.img : store.img[i] # EmptyStr)
          => /\ DOMAIN ev.ret = {i \in DOMAIN store.img : store.img[i] # EmptyStr}
             /\ \A i \in DOMAIN ev.ret : ev.ret[i] = store.img[i]
       /\ (\A i \in DOMAIN store.img : store.img[i] = EmptyStr)
          => ev.ret = AggregateMap(store)

\* A load returned the one per-image key with a value, leaving out a key with
\* an empty value and the aggregate map.
C20_Witness ==
    /\ ev.op = "loadImages"
    /\ \E i \in DOMAIN store.img : store.img[i] = EmptyStr
    /\ \E i \in DOMAIN store.img : store.img[i] # EmptyStr
    /\ store.agg.st = "ok" /\ DOMAIN store.agg.m \ DOMAIN store.img # {}
    /\ DOMAIN ev.ret = {i \in DOMAIN store.img : store.img[i] # EmptyStr}

\* ------------------------------------------------ unreferenced-image claims
\* The ids of the placeholders that occur in the inline content of the
\* documents handed over or in a body slot of the store.
PlaceholderIds(docs, st) ==
    UNION {{CapturedId(docs[d].content[n].src) :
               n \in {m \in DOMAIN docs[d].content : docs[d].content[m].src.t = "ph"}} :
           d \in DOMAIN docs}
    \cup UNION {{CapturedId(st.body[d][n].src) :
                    n \in {m \in DOMAIN st.body[d] : st.body[d][m].src.t = "ph"}} :
                d \in DOMAIN st.body}
Unreferenced(docs, st) ==
    {k \in DOMAIN st.img : ImageKeyId(k) \notin PlaceholderIds(docs, st)}

\* C21: the referenced ids are exactly the ids that appear in a placeholder of
\* a supplied document's inline content or of a stored body slot, and the
\* unreferenced set the sweep acts on is exactly the stored image ids minus the
\* referenced ones.
C21_UnreferencedDetection ==
    /\ ev.op = "referenced" => ev.ret = PlaceholderIds(ev.docs, store)
    /\ ev.op = "sweep" => ev.removed = Unreferenced(ev.docs, ev.pre)

\* The first half of C21 on its own: the set findReferencedImageIds returns.
C21_ReferencedExact ==
    ev.op = "referenced" => ev.ret = PlaceholderIds(ev.docs, store)

\* C22: after one call of removeUnreferencedImages no per-image entry with an
\* unreferenced id remains in the store, whatever the number and the key order
\* of the unreferenced entries.
C22_SweepComplete ==
    ev.op = "sweep" => Unreferenced(ev.docs, store) = {}

\* ------------------------------------------------------ placeholder claims
SrcTokens(c, kind) == {n \in DOMAIN c : c[n].src.t = kind}
\* Document d of store st holds exactly one src string, the data URL of an
\* <img> tag; no other document holds an <img> tag with a data URL; the image
\* store is empty.
OneInlineImage(st, d) ==
    /\ st.docs.st = "ok"
    /\ d \in DOMAIN st.docs.m
    /\ Cardinality({n \in DOMAIN st.docs.m[d].content :
                       st.docs.m[d].content[n].src.t # "none"}) = 1
    /\ ImgMatches(st.docs.m[d].content) # <<>>
    /\ \A e \in DOMAIN st.docs.m \ {d} : ImgMatches(st.docs.m[e].content) = <<>>
    /\ loadImagesFromStorage(st) = EmptyMap
\* Body c holds exactly one placeholder, that of image i, and no data URL.
OnePlaceholder(c, i) ==
    /\ SrcTokens(c, "data") = {}
    /\ Cardinality(SrcTokens(c, "ph")) = 1
    /\ \A n \in SrcTokens(c, "ph") : c[n].src = Ph(i, <<>>)

\* C23: for a document body that holds one inline data-URL image, after the v2
\* step the body holds exactly one placeholder and no data URL and the image
\* store holds exactly one entry, under the placeholder's id, whose value is
\* the original data URL; after the whole chain of steps get(id) returns it.
C23_PlaceholderRoundTrip ==
    /\ (ev.op = "step" /\ ev.n = 2 /\ ~ev.again)
       => \A d \in DOMAIN ev.pre.docs.m :
             OneInlineImage(ev.pre, d)
             => \E i \in DOMAIN loadImagesFromStorage(store) :
                   /\ DOMAIN loadImagesFromStorage(store) = {i}
                   /\ loadImagesFromStorage(store)[i]
                         = ImgMatches(ev.pre.docs.m[d].content)[1].src
                   /\ OnePlaceholder(store.docs.m[d].content, i)
    /\ (ev.op = "load" /\ ev.F = {} /\ getStorageVersion(ev.pre) < 2)
       => \A d \in DOMAIN ev.pre.docs.m :
             OneInlineImage(ev.pre, d)
             => \E i \in DOMAIN store.img :
                   /\ getImageFromStorage(store, i)
                         = <<ImgMatches(ev.pre.docs.m[d].content)[1].src>>
                   /\ d \in DOMAIN store.body
                   /\ OnePlaceholder(store.body[d], i)

\* The whole chain ran on a store with one inline image and left its data URL
\* under a per-image key.
C23_Witness ==
    /\ ev.op = "load" /\ ev.F = {} /\ getStorageVersion(ev.pre) < 2
    /\ \E d \in DOMAIN ev.pre.docs.m :
          /\ OneInlineImage(ev.pre, d)
          /\ \E i \in DOMAIN store.img : OnePlaceholder(store.body[d], i)

\* ------------------------------------------------------------ editor claims
\* C24: an explicit delete of a document removes it from the stored documents
\* map, removes its body slot and leaves every image entry of the store as it
\* was.  (A delete that goes on to create a document under the same id, the
\* clash of C27, is left aside.)
C24_DeleteRemovesBodySlot ==
    [][\A i \in TabIds, id \in 1..MaxClock, t \in Now(MaxClock) :
          (Delete(i, id, t) /\ tabs'[i].cur # id)
          => /\ id \notin DOMAIN store'.docs.m
             /\ id \notin DOMAIN store'.body
             /\ store'.img = store.img /\ store'.agg = store.agg]_vars

\* The part of C24 the code keeps: the map entry goes, the images stay.
C24_DeleteKeepsImages ==
    [][\A i \in TabIds, id \in 1..MaxClock, t \in Now(MaxClock) :
          (Delete(i, id, t) /\ tabs'[i].cur # id)
          => /\ id \notin DOMAIN store'.docs.m
             /\ store'.img = store.img /\ store'.agg = store.agg]_vars

\* C25: the storage listener, for the documents key, leaves the tab and the
\* store as the callback of the poll timer would have left them from the same
\* tab state and store state; a storage event for any other key changes
\* neither the tab nor the store.
C25_TriggerIndependence ==
    ev.op = "storage" =>
       IF ev.key = DOCS_KEY
       THEN /\ tabs[ev.tab] =
                  pollHandler(ev.pre,
                              checkForExternalUpdates(ev.pre.docs, ev.pre.cur, ev.pre.lk,
                                                      ev.preStore, ev.t, ev.preNext, {}))
            /\ store = loadDocsFromStorage(ev.preStore, ev.t, ev.preNext, {}).st
       ELSE tabs[ev.tab] = ev.pre /\ store = ev.preStore

\* A storage event for the documents key made the tab take over the open
\* document from the store.
C25_Witness ==
    /\ ev.op = "storage" /\ ev.key = DOCS_KEY
    /\ tabs[ev.tab].lk # ev.pre.lk
    /\ tabs[ev.tab].editor # ev.pre.editor

\* C26: after an input event the pending debounced save eventually fires,
\* persisting the current document, unless the tab is destroyed first; at most
\* one debounced save is pending per tab at any time, and each new input
\* replaces the pending one.
C26_DebouncedSave ==
    /\ \A i \in TabIds : (tabs[i].pending > 0) ~> (tabs[i].pending = 0)
    /\ \A i \in TabIds : [](tabs[i].pending <= 1)
    /\ [][\A i \in TabIds :
             /\ (\E c \in TypedMore : Input(i, c)) => tabs'[i].pending = 1
             /\ (\E t \in Now(MaxClock) : Timeout(i, t))
                => /\ tabs[i].cur \in DOMAIN store'.docs.m
                   /\ store'.docs.m[tabs[i].cur].content = tabs[i].editor]_vars

\* The parts of C26 about the timer alone: the pending save fires or dies with
\* the tab, there is never more than one, an input leaves exactly one.
C26_TimerFiresOnce ==
    /\ \A i \in TabIds : (tabs[i].pending > 0) ~> (tabs[i].pending = 0)
    /\ \A i \in TabIds : [](tabs[i].pending <= 1)
    /\ [][\A i \in TabIds :
             (\E c \in TypedMore : Input(i, c)) => tabs'[i].pending = 1]_vars

\* C27: creating a document never reuses the id of a document that is in the
\* store or in a tab's collection, so a create overwrites no document, also
\* when two creations happen at the same clock value.
C27_FreshDocId ==
    [][\A i \in TabIds, t \in Now(MaxClock) :
          Create(i, t)
          => /\ t \notin DOMAIN store.docs.m
             /\ \A j \in TabIds : t \notin DOMAIN tabs[j].docs]_vars

\* ---------------------------------------------------------- step claims
\* The positions <<d, n>> of the <img> tags with a data URL in a documents map.
InlineImages(docs) ==
    {p \in UNION {{<<d, n>> : n \in DOMAIN docs[d].content} : d \in DOMAIN docs} :
        /\ docs[p[1]].content[p[2]].k = "img"
        /\ docs[p[1]].content[p[2]].src.t = "data"}
SrcAt(docs, p) == docs[p[1]].content[p[2]].src
Values(m) == {m[k] : k \in DOMAIN m}
\* The image entries of a store, per-image keys and aggregate map together.
StoredImages(st) ==
    [i \in (DOMAIN st.img) \cup (DOMAIN st.agg.m) |->
        IF i \in DOMAIN st.img THEN st.img[i] ELSE st.agg.m[i]]

\* C28: the v2 step replaces every <img> occurrence of a data URL by the
\* placeholder of the image entry that holds the URL, the same id for every
\* occurrence within a document and across documents; a URL the image store
\* held before the step keeps its id, and a new id is allocated only for a URL
\* not yet stored, one id per URL.
C28_Deduplicates ==
    (ev.op = "step" /\ ev.n = 2) =>
       /\ \A p \in InlineImages(ev.pre.docs.m) :
             \E i \in DOMAIN StoredImages(store) :
                /\ SrcAt(store.docs.m, p) = Ph(i, <<>>)
                /\ StoredImages(store)[i] = SrcAt(ev.pre.docs.m, p)
                /\ i \in DOMAIN loadImagesFromStorage(ev.pre)
                   <=> SrcAt(ev.pre.docs.m, p) \in Values(loadImagesFromStorage(ev.pre))
       /\ \A p, q \in InlineImages(ev.pre.docs.m) :
             SrcAt(ev.pre.docs.m, p) = SrcAt(ev.pre.docs.m, q)
             => SrcAt(store.docs.m, p) = SrcAt(store.docs.m, q)

\* No data URL of an <img> tag of document d is a proper prefix of a data URL
\* that occurs in the same document.
NoPrefixClash(docs, d) ==
    \A n, m \in DOMAIN docs[d].content :
       (docs[d].content[n].k = "img" /\ docs[d].content[n].src.t = "data"
          /\ docs[d].content[m].src.t = "data")
       => \/ docs[d].content[n].src = docs[d].content[m].src
          \/ ~IsPrefix(docs[d].content[n].src.p, docs[d].content[m].src.p)

\* C28 where no URL is a prefix of another one of the same document.
C28_DeduplicatesApart ==
    (ev.op = "step" /\ ev.n = 2
        /\ \A d \in DOMAIN ev.pre.docs.m : NoPrefixClash(ev.pre.docs.m, d))
    => C28_Deduplicates

\* The body slot of document d is in store st what it was in store pre.
SlotKept(pre, st, d) ==
    (d \in DOMAIN st.body <=> d \in DOMAIN pre.body)
    /\ (d \in DOMAIN st.body => st.body[d] = pre.body[d])

SplitOutcome(pre, docs, st, F, t) ==
    \A d \in DOMAIN pre.docs.m :
       IF NonBlank(pre.docs.m[d].content)
       THEN /\ docs[d] = [pre.docs.m[d] EXCEPT !.content = <<>>, !.lastSaved = t]
            /\ IF Throws(F, Site("body", d)) THEN SlotKept(pre, st, d)
               ELSE d \in DOMAIN st.body /\ st.body[d] = pre.docs.m[d].content
       ELSE docs[d] = pre.docs.m[d] /\ SlotKept(pre, st, d)

C30_PerKeyAll ==
    (ev.op = "perkey" /\ ev.F = {}) =>
       IF ev.pre.agg.st = "absent" THEN store = ev.pre
       ELSE /\ \A id \in DOMAIN ev.pre.agg.m : id \in DOMAIN store.img
            /\ \A id \in DOMAIN ev.pre.img : store.img[id] = ev.pre.img[id]
            /\ store.agg = AbsentKey

\* The step on store pre has to write the per-image key of id, and the write
\* throws.
PerKeyThrew(pre, id, F) ==
    /\ Throws(F, Site("perkey", id))
    /\ pre.agg.m[id] # EmptyStr
    /\ ~(id \in DOMAIN pre.img /\ pre.img[id] # EmptyStr)

\* C30 amended: when the aggregate key holds a map and no write throws, every
\* id of the map with a non-empty value has a per-image entry after the step,
\* the value it had when that was non-empty, else the value of the map; no
\* other per-image key changes and the aggregate key is absent; when a write
\* of the step throws, the aggregate key stays and no non-empty per-image
\* value changes; when the aggregate key is absent or unparsable the step
\* changes nothing.
C30_PerKeyNonEmpty ==
    ev.op = "perkey" =>
       IF ev.pre.agg.st # "ok" THEN store = ev.pre
       ELSE /\ \A id \in DOMAIN ev.pre.img :
                 ev.pre.img[id] # EmptyStr
                 => id \in DOMAIN store.img /\ store.img[id] = ev.pre.img[id]
            /\ \A id \in DOMAIN store.img :
                 \/ id \in DOMAIN ev.pre.img /\ store.img[id] = ev.pre.img[id]
                 \/ id \in DOMAIN ev.pre.agg.m /\ store.img[id] = ev.pre.agg.m[id]
                       /\ store.img[id] # EmptyStr
            /\ IF \E id \in DOMAIN ev.pre.agg.m : PerKeyThrew(ev.pre, id, ev.F)
               THEN store.agg = ev.pre.agg
               ELSE /\ store.agg = IF Throws(ev.F, Site("rmagg", 0)) THEN ev.pre.agg
                                   ELSE AbsentKey
                    /\ \A id \in DOMAIN ev.pre.agg.m :
                          ev.pre.agg.m[id] # EmptyStr
                          => id \in DOMAIN store.img /\ store.img[id] # EmptyStr

\* The step moved an id of the aggregate map to a per-image key, left the
\* existing value of another id alone and removed the aggregate key.
C30_Witness ==
    /\ ev.op = "perkey" /\ ev.F = {} /\ ev.pre.agg.st = "ok"
    /\ store.agg = AbsentKey
    /\ \E id \in DOMAIN ev.pre.agg.m : id \notin DOMAIN ev.pre.img /\ id \in DOMAIN store.img
    /\ \E id \in DOMAIN ev.pre.agg.m \cap DOMAIN ev.pre.img :
          ev.pre.agg.m[id] # ev.pre.img[id] /\ store.img[id] = ev.pre.img[id]

\* ---------------------------------------------------------------------------
\* Layout of the current schema
\* ---------------------------------------------------------------------------

\* C31: in every reachable state where the stored schema version equals
\* CURRENT_STORAGE_VERSION, every document of the stored documents map has
\* empty inline content: bodies live only in the per-document body slots,
\* after any sequence of loads, saves, renames and reconciles.
C31_LayoutInvariant ==
    getStorageVersion(store) = CURRENT_STORAGE_VERSION /\ store.docs.st = "ok"
    => \A d \in DOMAIN store.docs.m : store.docs.m[d].content = <<>>

\* ---------------------------------------------------------------------------
\* Migration under write failures
\* ---------------------------------------------------------------------------

\* A body with every placeholder of a stored image written out as the data URL
\* again (the text that follows the id kept), as a reader of the store can
\* recover it from the per-image keys and the aggregate key.
ExpandSrc(src, images) ==
    IF src.t = "ph" /\ src.id \in DOMAIN images /\ images[src.id].t = "data"
    THEN Data(images[src.id].p \o src.p)
    ELSE src
Expand(content, images) ==
    [n \in 1..Len(content) |->
        [k |-> content[n].k, src |-> ExpandSrc(content[n].src, images)]]
Recoverable(st, d, body) ==
    \/ d \in DOMAIN st.docs.m
       /\ Expand(st.docs.m[d].content, loadImagesMerged(st)) = body
    \/ d \in DOMAIN st.body
       /\ Expand(st.body[d], loadImagesMerged(st)) = body

\* C32: no user content is lost by migration under store write failures: after
\* loadAll with any subset of the store writes failing, the original body of
\* every document is still recoverable, as inline content of the stored
\* documents map or in its body slot; the v3 step never persists a cleared
\* metadata content for a document whose body-slot write did not succeed.
C32_NoContentLost ==
    ev.op = "load" /\ ev.pre.docs.st = "ok"
    => \A d \in DOMAIN ev.pre.docs.m :
          ev.pre.docs.m[d].content # <<>>
          => Recoverable(store, d, Expand(ev.pre.docs.m[d].content,
                                          loadImagesMerged(ev.pre)))
\* The part that holds: with no write failing every body is recoverable.
C32_NoFault == ev.op = "load" /\ ev.F = {} => C32_NoContentLost

\* ---------------------------------------------------------------------------
\* The schema version
\* ---------------------------------------------------------------------------

\* C33: when the stored schema version is already CURRENT_STORAGE_VERSION or
\* higher, a load and a reconcile are read-only on the store: they write,
\* remove or change no key (documents map, body slots, images, version), and a
\* reconcile changes only the in-memory collection of the tab that called it.
C33_ReadOnlyAtCurrent ==
    [][(/\ getStorageVersion(store) >= CURRENT_STORAGE_VERSION
        /\ ev'.op \in {"load", "reconcile"})
       => /\ store' = store
          /\ nextImg' = nextImg
          /\ ev'.op = "load" => tabs' = tabs
          /\ ev'.op = "reconcile"
             => \A j \in TabIds \ {ev'.tab} : tabs'[j] = tabs[j]]_vars

\* A reconcile on a store of a later version, its aggregate images key and the
\* inline image of its document still in place, brought a change of another
\* tab into the caller's collection.
C33_Witness ==
    /\ ev.op = "reconcile" /\ ev.changed
    /\ getStorageVersion(store) = HIGHER_VERSION
    /\ store.agg.st = "ok"
    /\ \E d \in DOMAIN store.docs.m : store.docs.m[d].content = <<Img(UrlA)>>

\* C34: the stored schema version never decreases: across any sequence of loads
\* and reconciles by any number of tabs, each version write sets the version to
\* CURRENT_STORAGE_VERSION and happens only when the version read in that call
\* was below CURRENT_STORAGE_VERSION.
C34_VersionMonotone ==
    /\ [][/\ getStorageVersion(store') >= getStorageVersion(store)
          /\ store'.ver # store.ver
             => /\ store'.ver = <<CURRENT_STORAGE_VERSION>>
                /\ getStorageVersion(store) < CURRENT_STORAGE_VERSION]_vars
    /\ [](ev.op = "load"
          => \A n \in 1..Len(ev.ran) :
                ev.ran[n].e = "version"
                => /\ ev.ran[n].v = CURRENT_STORAGE_VERSION
                   /\ getStorageVersion(ev.pre) < CURRENT_STORAGE_VERSION
                   /\ n = Len(ev.ran))

\* A load wrote the version of a store that was below it.
C34_Witness ==
    /\ ev.op = "load" /\ getStorageVersion(ev.pre) = 3
    /\ store.ver = <<CURRENT_STORAGE_VERSION>>
    /\ ev.ran # <<>> /\ ev.ran[Len(ev.ran)] = VersionWrite(CURRENT_STORAGE_VERSION)

\* ---------------------------------------------------------------------------
\* The open document of a tab
\* ---------------------------------------------------------------------------

\* C35: in every reachable state of a tab, if currentId is non-null then the
\* in-memory collection contains currentId, so saving the current document
\* never dereferences a missing entry; this holds in particular after a
\* reconcile in which another tab deleted the document this tab has open.
C35_OpenDocValid ==
    \A i \in TabIds :
       tabs[i].up /\ tabs[i].cur # 0 => tabs[i].cur \in DOMAIN tabs[i].docs

\* C36: in every reachable state of a tab with an open document present in its
\* collection, lastKnownSaveTime equals the lastSaved of the in-memory entry of
\* the open document, after any sequence of select, save, rename and reconcile
\* (with the editor's onReplace handler), a reconcile that finds a stored copy
\* with a lower lastSaved than the watermark included.
C36_WatermarkConsistent ==
    \A i \in TabIds :
       tabs[i].up /\ tabs[i].cur \in DOMAIN tabs[i].docs
       => tabs[i].lk = tabs[i].docs[tabs[i].cur].lastSaved

\* ---------------------------------------------------------------------------
\* Convergence of a tab on the store
\* ---------------------------------------------------------------------------

\* A further reconcile of tab i, run on the state as it is.
Again(i) ==
    checkForExternalUpdates(tabs[i].docs, tabs[i].cur, tabs[i].lk, store, clock,
                            nextImg, {})
Quiet(r) == ~r.changed /\ r.calls = <<>>

\* C37: once a tab has run reconcile and no tab has written to the store
\* since, its in-memory collection has exactly the ids of the stored documents
\* map and every local document equals the stored document of the same id
\* (content and title included, not only lastSaved), and a further reconcile
\* reports changed = false and invokes no callback, the caller having adopted
\* the reported watermark.
C37_Converges ==
    ev.op = "reconcile"
    => /\ tabs[ev.tab].docs = store.docs.m
       /\ Quiet(Again(ev.tab))

\* The part that holds: the ids and the lastSaved stamps agree with the store,
\* and a further reconcile is quiet.
C37_StampsConverge ==
    ev.op = "reconcile"
    => /\ DOMAIN tabs[ev.tab].docs = DOMAIN store.docs.m
       /\ \A d \in DOMAIN store.docs.m :
             tabs[ev.tab].docs[d].lastSaved = store.docs.m[d].lastSaved
       /\ Quiet(Again(ev.tab))

\* ---------------------------------------------------------------------------
\* The life of a single tab
\* ---------------------------------------------------------------------------

C39_SweepSafe ==
    ev.op = "sweep"
    => /\ \A k \in ev.removed : ImageKeyId(k) \notin PlaceholderIds(ev.docs, ev.pre)
       /\ ev.removed \subseteq DOMAIN ev.pre.img
       /\ store = [ev.pre EXCEPT
                      !.img = [k \in (DOMAIN ev.pre.img) \ ev.removed |-> ev.pre.img[k]]]

\* A sweep removed an image and kept two others: one referenced only by a
\* placeholder of a body slot, one only by a placeholder of inline content.
C39_Witness ==
    /\ ev.op = "sweep" /\ ev.removed # {}
    /\ \E k \in DOMAIN store.img :
          /\ \E d \in DOMAIN store.body : \E n \in DOMAIN store.body[d] :
                store.body[d][n].src = Ph(k, <<>>)
          /\ \A d \in DOMAIN ev.docs : \A n \in DOMAIN ev.docs[d].content :
                ev.docs[d].content[n].src # Ph(k, <<>>)
    /\ \E k \in DOMAIN store.img :
          /\ \E d \in DOMAIN ev.docs : \E n \in DOMAIN ev.docs[d].content :
                ev.docs[d].content[n].src = Ph(k, <<>>)
          /\ \A d \in DOMAIN store.body : \A n \in DOMAIN store.body[d] :
                store.body[d][n].src # Ph(k, <<>>)

\* ---------------------------------------------------------------------------
\* Two loads at once
\* ---------------------------------------------------------------------------

\* Every placeholder of a body names an image that is stored.
NoDangling(content, images) ==
    \A n \in DOMAIN content :
       content[n].src.t = "ph" => content[n].src.id \in DOMAIN images
BothDone == ev.op = "concurrent" /\ \A i \in TabIds : tabs[i].pc = "done"

\* C40: when two tabs run loadAll on the same store older than version 2 with
\* their individual store reads and writes interleaved, in the final state
\* every placeholder id that occurs in a stored document body (inline content
\* or body slot) names an image present in the image store, and the body with
\* its placeholders resolved is the original one, data URLs included: no
\* dangling placeholder, no image lost.
C40_ConcurrentIntegrity ==
    BothDone
    => \A d \in DOMAIN ev.pre.docs.m :
          /\ d \in DOMAIN store.docs.m
          /\ NoDangling(store.docs.m[d].content, loadImagesMerged(store))
          /\ d \in DOMAIN store.body
             => NoDangling(store.body[d], loadImagesMerged(store))
          /\ Recoverable(store, d, ev.pre.docs.m[d].content)

\* The part that holds: when one load had written the version before the
\* other read it, every body is in its slot and nothing dangles.
C40_InSequence ==
    BothDone /\ (\E i \in TabIds : tabs[i].ver = CURRENT_STORAGE_VERSION)
    => \A d \in DOMAIN ev.pre.docs.m :
          /\ d \in DOMAIN store.body
          /\ NoDangling(store.body[d], loadImagesMerged(store))
          /\ Recoverable(store, d, ev.pre.docs.m[d].content)

====
